---------------------------- MODULE Spec2Model ----------------------------
(***************************************************************************)
(* Shega backend: the complaint lifecycle (ComplaintsService,              *)
(* TechniciansService.updateTaskStatus) and the notification fan-out       *)
(* (NotificationsGateway, NotificationsService) as state machines over the *)
(* relational store.  Every database round trip of a handler is one step:  *)
(* handlers of different requests interleave at their awaits.              *)
(***************************************************************************)
EXTENDS Integers, Sequences, FiniteSets, Bags, TLC

(***************************************************************************)
(* Bounds of the model.                                                    *)
(***************************************************************************)
MaxComplaints == 1
MaxTasks == 2
MaxProcs == 2
MaxTechs == 2
MaxUsers == 2
\* Requests served in one behaviour.
MaxCalls == 3
\* Sockets opened, notifications created, and the length of a target list.
MaxSockets == 2
MaxNotifications == 2
MaxTargets == 2
\* Login requests served in one behaviour, and the last minute of the clock.
MaxLogins == 7
MaxTime == 16
\* Rows matching a list query, and the pages asked for.
MaxRecords == 25
MaxPage == 4
\* PasswordResetAttempt rows, and the clock of the password resets.
MaxResetAttempts == 4
MaxResetTime == 70
\* User rows created by signup.
MaxSignups == 2

Procs == 1..MaxProcs
ComplaintIds == 1..MaxComplaints
\* Technician ids the requests name: the existing ones and one that is no row.
TechIds == 1..(MaxTechs + 1)
\* User ids the requests name: the existing ones and one that is no row.
UserIds == 1..(MaxUsers + 1)

(***************************************************************************)
(* Enums of the schema.                                                    *)
(***************************************************************************)
ComplaintStatus == {"SUBMITTED", "ASSIGNED", "IN_PROGRESS", "RESOLVED", "REJECTED"}
TechnicianStatus == {"ACTIVE", "INACTIVE", "ON_LEAVE"}
ComplaintCategory ==
    {"WATER_LEAK", "NO_WATER", "DIRTY_WATER", "SANITATION", "PIPE_BURST", "DRAINAGE"}

\* A nullable timestamp column: NULL, or a date (new Date()).
NULL == "null"
DATE == "date"
\* A null timestamp where timestamps are minutes of the clock.
NoTime == 0 - 1

\* Role of the schema, without ADMIN: the creator rows the handlers name
\* (createdById) are taken to exist and are never a target.
Role == {"RESIDENT", "TECHNICIAN"}
ReceiptStatus == {"UNREAD", "READ"}
Audience == {"ALL", "RESIDENT", "TECHNICIAN", "SPECIFIC"}

VARIABLES
    users,            \* User rows: id -> role
    technicians,      \* Technician rows: id -> status
    complaints,       \* Complaint rows: id -> [status, assignedAt, resolvedAt]
    nextComplaintId,  \* Complaint.id SERIAL
    tasks,            \* Task rows: id -> [complaintId, technicianId]
    nextTaskId,       \* Task.id SERIAL
    pc,               \* each request slot's position in its handler
    call,             \* each request slot's arguments and locals
    result,           \* each request slot's outcome once its handler ended
    calls,            \* requests accepted so far
    sockets,          \* socket ids of the open websocket connections
    nextSocketId,     \* the id the next connection gets
    connectedUsers,   \* gateway Map userId -> socketId, in insertion order
    adminSockets,     \* gateway Set of admin socket ids
    handshake,        \* socket id -> Number(socket.handshake.query.userId)
    nextNotificationId, \* notifications.id SERIAL
    notifications,    \* Notification rows: the set of ids
    receipts,         \* notification_receipts rows
    send,             \* the gateway's send-notification call and its outcome
    created,          \* the last NotificationsService.create call's outcome
    loginAttempts,    \* User.loginAttempts: id -> count
    lastLoginAttempt, \* User.lastLoginAttempt: id -> NoTime or a time
    now,              \* the clock, in minutes
    login,            \* the login call being served and its outcome
    logins,           \* login requests accepted so far
    failedLogins,     \* "Invalid credentials" responses in a row for the account
    lastFailureAt,    \* the time of the latest of them
    listing,          \* the last list request and its response
    accounts,         \* User rows: id -> [email, password, resetToken,
                      \*   resetTokenExpiry]
    resetAttempts,    \* PasswordResetAttempt rows: a bag of [email, createdAt]
    auth              \* each request slot's AuthService call

dbvars == <<users, technicians, complaints, nextComplaintId, tasks, nextTaskId>>
procvars == <<pc, call, result>>
gatewayvars == <<sockets, nextSocketId, connectedUsers, adminSockets, handshake>>
notifyvars == <<nextNotificationId, notifications, receipts, send, created>>
accountvars == <<accounts, resetAttempts, auth>>
authvars == <<loginAttempts, lastLoginAttempt, now, login, logins,
              failedLogins, lastFailureAt>>
vars == <<users, technicians, complaints, nextComplaintId, tasks, nextTaskId,
          pc, call, result, calls,
          sockets, nextSocketId, connectedUsers, adminSockets, handshake,
          nextNotificationId, notifications, receipts, send, created,
          loginAttempts, lastLoginAttempt, now, login, logins,
          failedLogins, lastFailureAt, listing,
          accounts, resetAttempts, auth>>

NoTask == [id |-> 0, complaintId |-> 0, technicianId |-> 0]
NoCall == [op |-> "none", cid |-> 0, tid |-> 0, status |-> "none",
           taskId |-> 0, existing |-> NoTask, by |-> 0,
           adminNotes |-> << >>]

TasksOf(c) == {t \in DOMAIN tasks : tasks[t].complaintId = c}
TaskRow(t) == [id |-> t, complaintId |-> tasks[t].complaintId,
               technicianId |-> tasks[t].technicianId]

\* The seeded users: residents and technicians.
SeedRole(u) == IF u % 2 = 1 THEN "RESIDENT" ELSE "TECHNICIAN"

NoSend == [state |-> "none", socket |-> 0, targetUserIds |-> << >>,
           notificationId |-> 0, sentCount |-> 0, emitted |-> << >>]
NoListing == [route |-> "none", page |-> << >>, limit |-> << >>, n |-> 0,
              status |-> "none", queried |-> FALSE,
              pageNum |-> 0, limitNum |-> 0,
              records |-> 0, total |-> 0, pages |-> 0, finite |-> TRUE]
NoLogin == [pc |-> "idle", userId |-> 0, password |-> "", result |-> "none",
            remaining |-> 0]
NoCreate == [state |-> "none", notificationId |-> 0, recipientUserIds |-> << >>]

\* A reset token: the JWT {sub, type: 'password_reset', iat, exp = iat + 1h}.
NoToken == [sub |-> 0, iat |-> NoTime]
\* bcrypt.hash of a password, and bcrypt.compare against a hash.
Hash(password) == <<"$">> \o password
Compare(password, hash) == hash = Hash(password)
\* The emails and the password of the users of Init.
SeedEmail(u) == <<"a", "@">> \o [i \in 1..u |-> "x"]
SeedPassword == <<"r", "i", "g", "h", "t", "1", "2", "3">>
SeedAccount(u) == [email |-> SeedEmail(u), password |-> Hash(SeedPassword),
                   resetToken |-> NoToken, resetTokenExpiry |-> NoTime]
NoAuth == [pc |-> "idle", op |-> "none", email |-> << >>, password |-> << >>,
           role |-> "none", token |-> NoToken, userId |-> 0, attempts |-> 0,
           result |-> "none"]

InitUsers == users = [u \in 1..MaxUsers |-> SeedRole(u)]
InitRest ==
    /\ technicians = [t \in 1..MaxTechs |-> "ACTIVE"]
    /\ complaints = << >>
    /\ nextComplaintId = 1
    /\ tasks = << >>
    /\ nextTaskId = 1
    /\ pc = [p \in Procs |-> "idle"]
    /\ call = [p \in Procs |-> NoCall]
    /\ result = [p \in Procs |-> "none"]
    /\ calls = 0
    /\ sockets = {}
    /\ nextSocketId = 1
    /\ connectedUsers = << >>
    /\ adminSockets = {}
    /\ handshake = [s \in 1..MaxSockets |-> 0]
    /\ nextNotificationId = 1
    /\ notifications = {}
    /\ receipts = {}
    /\ send = NoSend
    /\ created = NoCreate
    /\ loginAttempts = [u \in 1..MaxUsers |-> 0]
    /\ lastLoginAttempt = [u \in 1..MaxUsers |-> NoTime]
    /\ now = 0
    /\ login = NoLogin
    /\ logins = 0
    /\ failedLogins = 0
    /\ lastFailureAt = 0
    /\ listing = NoListing
    /\ accounts = [u \in 1..MaxUsers |-> SeedAccount(u)]
    /\ resetAttempts = EmptyBag
    /\ auth = [p \in Procs |-> NoAuth]
Init == InitUsers /\ InitRest

\* A slot is free before its first request and once its handler has ended.
Free(p) == pc[p] \in {"idle", "done"}

\* A request arrives and takes the first free slot.
Accept(p) ==
    /\ Free(p)
    /\ \A q \in Procs : q < p => ~Free(q)
    /\ calls < MaxCalls
    /\ calls' = calls + 1

\* The handler of slot p ends: it returns (res = "ok") or throws res.
Finish(p, res) ==
    /\ pc' = [pc EXCEPT ![p] = "done"]
    /\ result' = [result EXCEPT ![p] = res]
    /\ UNCHANGED <<gatewayvars, notifyvars, authvars, listing, accountvars>>

Goto(p, label) ==
    /\ pc' = [pc EXCEPT ![p] = label]
    /\ result' = [result EXCEPT ![p] = "none"]
    /\ UNCHANGED <<gatewayvars, notifyvars, authvars, listing, accountvars>>


(***************************************************************************)
(* ComplaintsService.create                                                *)
(***************************************************************************)
\* Request strings are sequences of characters.
Whitespace == {" "}
ValidDto == [title |-> <<" ", "L", " ">>, description |-> <<"w", " ">>,
             category |-> "PIPE_BURST"]
\* The request bodies tried: a valid one, and one per way of being invalid
\* (empty or blank title, blank description, a category outside the enum,
\* no category).
CreateDtos ==
    { ValidDto,
      [ValidDto EXCEPT !.title = << >>],
      [ValidDto EXCEPT !.title = <<" ", " ">>],
      [ValidDto EXCEPT !.description = <<" ">>],
      [ValidDto EXCEPT !.category = "POTHOLE"],
      [ValidDto EXCEPT !.category = ""] }

RECURSIVE TrimStart(_)
TrimStart(s) ==
    IF s # << >> /\ Head(s) \in Whitespace THEN TrimStart(Tail(s)) ELSE s

RECURSIVE TrimEnd(_)
TrimEnd(s) ==
    IF s # << >> /\ s[Len(s)] \in Whitespace
    THEN TrimEnd(SubSeq(s, 1, Len(s) - 1)) ELSE s

\* String.prototype.trim
Trim(s) == TrimEnd(TrimStart(s))

\* The exception create throws for the request, or "ok".
CreateOutcome(userId, dto) ==
    IF userId \notin DOMAIN users THEN "BadRequest"
    ELSE IF Trim(dto.title) = << >> THEN "BadRequest"
    ELSE IF Trim(dto.description) = << >> THEN "BadRequest"
    ELSE IF dto.category = "" THEN "BadRequest"
    ELSE IF dto.category \notin ComplaintCategory THEN "BadRequest"
    ELSE "ok"

NewComplaint == [status |-> "SUBMITTED", assignedAt |-> NULL,
                 resolvedAt |-> NULL, adminNotes |-> << >>]

create(p, userId, dto) ==
    /\ Accept(p)
    /\ LET res == CreateOutcome(userId, dto) IN
       IF res = "ok"
       THEN /\ nextComplaintId <= MaxComplaints
            /\ complaints' = complaints @@ (nextComplaintId :> NewComplaint)
            /\ nextComplaintId' = nextComplaintId + 1
            /\ call' = [call EXCEPT ![p] =
                          [NoCall EXCEPT !.op = "create", !.cid = nextComplaintId]]
            /\ Finish(p, "ok")
       ELSE /\ UNCHANGED <<complaints, nextComplaintId>>
            /\ call' = [call EXCEPT ![p] = [NoCall EXCEPT !.op = "create"]]
            /\ Finish(p, res)
    /\ UNCHANGED <<users, technicians, tasks, nextTaskId>>

\* ComplaintsService.getComplaintById: the row, or NotFoundException.
getComplaintById(id) == IF id \in DOMAIN complaints THEN "ok" ELSE "NotFound"

(***************************************************************************)
(* ComplaintsService.updateComplaintStatus                                 *)
(***************************************************************************)
\* The data object of the update: status always, resolvedAt only for RESOLVED.
StatusData(row, status) ==
    [row EXCEPT !.status = status,
                !.resolvedAt = IF status = "RESOLVED" THEN DATE ELSE @]

\* A text is a sequence of characters; the empty text stands for a column
\* that is null and for a body without adminNotes (if (adminNotes) is false
\* for both undefined and '').
NoNotes == << >>
StatusNotes == {NoNotes, <<"a">>, <<"b">>}
NotesData(row, adminNotes) ==
    IF adminNotes # NoNotes THEN [row EXCEPT !.adminNotes = adminNotes]
    ELSE row

\* The callers the route admits (@Roles(ADMIN, TECHNICIAN)): an admin (0), or
\* the technician of that id.  The service is not told who calls.
StatusCallers == {0} \cup (1..MaxTechs)

updateComplaintStatus_find(p, caller, id, status, adminNotes) ==
    /\ Accept(p)
    /\ IF id \in DOMAIN complaints
       THEN /\ call' = [call EXCEPT ![p] =
                          [NoCall EXCEPT !.op = "updateStatus", !.cid = id,
                                         !.status = status, !.by = caller,
                                         !.adminNotes = adminNotes]]
            /\ Goto(p, "u_update")
       ELSE /\ call' = [call EXCEPT ![p] =
                          [NoCall EXCEPT !.op = "updateStatus", !.cid = id]]
            /\ Finish(p, "NotFound")
    /\ UNCHANGED dbvars

\* Mutant: the write is refused when the row is no longer SUBMITTED.
updateComplaintStatus_update_firstWins(p) ==
    /\ UNCHANGED calls
    /\ pc[p] = "u_update"
    /\ LET id == call[p].cid IN
       IF id \in DOMAIN complaints /\ complaints[id].status = "SUBMITTED"
       THEN /\ complaints' =
                 [complaints EXCEPT ![id] =
                     NotesData(StatusData(@, call[p].status),
                               call[p].adminNotes)]
            /\ Finish(p, "ok")
       ELSE /\ UNCHANGED complaints
            /\ Finish(p, "Conflict")
    /\ UNCHANGED <<users, technicians, nextComplaintId, tasks, nextTaskId, call>>

updateComplaintStatus_update(p) ==
    /\ UNCHANGED calls
    /\ pc[p] = "u_update"
    /\ LET id == call[p].cid IN
       IF id \in DOMAIN complaints
       THEN /\ complaints' =
                 [complaints EXCEPT ![id] =
                     NotesData(StatusData(@, call[p].status),
                               call[p].adminNotes)]
            /\ Finish(p, "ok")
       ELSE /\ UNCHANGED complaints
            /\ Finish(p, "PrismaError")
    /\ UNCHANGED <<users, technicians, nextComplaintId, tasks, nextTaskId, call>>

(***************************************************************************)
(* ComplaintsService.assignTechnician                                      *)
(***************************************************************************)
\* Assign calls that may still create a Task row.
AssignsInFlight ==
    {q \in Procs : call[q].op = "assign" /\ pc[q] \notin {"idle", "done"}}

assignTechnician_findComplaint(p, complaintId, technicianId) ==
    /\ Accept(p)
    /\ nextTaskId + Cardinality(AssignsInFlight) <= MaxTasks
    /\ call' = [call EXCEPT ![p] =
                  [NoCall EXCEPT !.op = "assign", !.cid = complaintId,
                                 !.tid = technicianId]]
    /\ IF complaintId \in DOMAIN complaints
       THEN Goto(p, "a_technician")
       ELSE Finish(p, "NotFound")
    /\ UNCHANGED dbvars

\* Mutant: the technician's status is not checked.
assignTechnician_findTechnician_anyStatus(p) ==
    /\ UNCHANGED calls
    /\ pc[p] = "a_technician"
    /\ IF call[p].tid \notin DOMAIN technicians
       THEN Finish(p, "NotFound")
       ELSE Goto(p, "a_complaint")
    /\ UNCHANGED <<dbvars, call>>

assignTechnician_findTechnician(p) ==
    /\ UNCHANGED calls
    /\ pc[p] = "a_technician"
    /\ LET technicianId == call[p].tid IN
       IF technicianId \notin DOMAIN technicians THEN Finish(p, "NotFound")
       ELSE IF technicians[technicianId] # "ACTIVE" THEN Finish(p, "BadRequest")
       ELSE Goto(p, "a_complaint")
    /\ UNCHANGED <<dbvars, call>>

assignTechnician_updateComplaint(p) ==
    /\ UNCHANGED calls
    /\ pc[p] = "a_complaint"
    /\ LET complaintId == call[p].cid IN
       IF complaintId \in DOMAIN complaints
       THEN /\ complaints' = [complaints EXCEPT ![complaintId] =
                                [@ EXCEPT !.status = "ASSIGNED", !.assignedAt = DATE]]
            /\ Goto(p, "a_findTask")
       ELSE /\ UNCHANGED complaints
            /\ Finish(p, "PrismaError")
    /\ UNCHANGED <<users, technicians, nextComplaintId, tasks, nextTaskId, call>>

\* task.findFirst({ where: { complaintId } }): no orderBy, any matching row.
assignTechnician_findFirstTask(p) ==
    /\ UNCHANGED calls
    /\ pc[p] = "a_findTask"
    /\ \/ /\ TasksOf(call[p].cid) = {}
          /\ call' = [call EXCEPT ![p].existing = NoTask]
       \/ \E t \in TasksOf(call[p].cid) :
             call' = [call EXCEPT ![p].existing = TaskRow(t)]
    /\ Goto(p, "a_task")
    /\ UNCHANGED dbvars

\* The foreign keys of Task: both referenced rows exist.
TaskForeignKeys(complaintId, technicianId) ==
    /\ complaintId \in DOMAIN complaints
    /\ technicianId \in DOMAIN technicians

\* Mutant: a Task is created whether or not one was found.
assignTechnician_writeTask_alwaysCreate(p) ==
    /\ UNCHANGED calls
    /\ pc[p] = "a_task"
    /\ IF TaskForeignKeys(call[p].cid, call[p].tid)
       THEN /\ tasks' = tasks @@ (nextTaskId :>
                  [complaintId |-> call[p].cid, technicianId |-> call[p].tid])
            /\ nextTaskId' = nextTaskId + 1
            /\ Finish(p, "ok")
       ELSE /\ UNCHANGED <<tasks, nextTaskId>>
            /\ Finish(p, "PrismaError")
    /\ UNCHANGED <<users, technicians, complaints, nextComplaintId, call>>

assignTechnician_writeTask(p) ==
    /\ UNCHANGED calls
    /\ pc[p] = "a_task"
    /\ LET existingTask == call[p].existing
           complaintId == call[p].cid
           technicianId == call[p].tid
       IN
       IF existingTask # NoTask
       THEN IF existingTask.id \in DOMAIN tasks
               /\ technicianId \in DOMAIN technicians
            THEN /\ tasks' = [tasks EXCEPT ![existingTask.id].technicianId =
                                technicianId]
                 /\ UNCHANGED nextTaskId
                 /\ Finish(p, "ok")
            ELSE /\ UNCHANGED <<tasks, nextTaskId>>
                 /\ Finish(p, "PrismaError")
       ELSE IF TaskForeignKeys(complaintId, technicianId)
            THEN /\ tasks' = tasks @@ (nextTaskId :>
                       [complaintId |-> complaintId, technicianId |-> technicianId])
                 /\ nextTaskId' = nextTaskId + 1
                 /\ Finish(p, "ok")
            ELSE /\ UNCHANGED <<tasks, nextTaskId>>
                 /\ Finish(p, "PrismaError")
    /\ UNCHANGED <<users, technicians, complaints, nextComplaintId, call>>

(***************************************************************************)
(* ComplaintsService.deleteComplaint                                       *)
(***************************************************************************)
Remove(f, keys) == [k \in DOMAIN f \ keys |-> f[k]]

deleteComplaint_find(p, id) ==
    /\ Accept(p)
    /\ call' = [call EXCEPT ![p] = [NoCall EXCEPT !.op = "delete", !.cid = id]]
    /\ IF id \in DOMAIN complaints
       THEN Goto(p, "d_tasks")
       ELSE Finish(p, "NotFound")
    /\ UNCHANGED dbvars

deleteComplaint_deleteTasks(p) ==
    /\ UNCHANGED calls
    /\ pc[p] = "d_tasks"
    /\ tasks' = Remove(tasks, TasksOf(call[p].cid))
    /\ Goto(p, "d_complaint")
    /\ UNCHANGED <<users, technicians, complaints, nextComplaintId, nextTaskId, call>>

\* Mutant: the foreign key does not cascade.
ComplaintRowDeleted_noCascade(id) ==
    /\ complaints' = Remove(complaints, {id})
    /\ tasks' = tasks

\* DELETE of a Complaint row: Task_complaintId_fkey is ON DELETE CASCADE.
ComplaintRowDeleted(id) ==
    /\ complaints' = Remove(complaints, {id})
    /\ tasks' = Remove(tasks, TasksOf(id))

deleteComplaint_deleteComplaint(p) ==
    /\ UNCHANGED calls
    /\ pc[p] = "d_complaint"
    /\ LET id == call[p].cid IN
       IF id \in DOMAIN complaints
       THEN /\ ComplaintRowDeleted(id)
            /\ Finish(p, "ok")
       ELSE /\ UNCHANGED <<complaints, tasks>>
            /\ Finish(p, "PrismaError")
    /\ UNCHANGED <<users, technicians, nextComplaintId, nextTaskId, call>>

(***************************************************************************)
(* TechniciansService.updateTaskStatus and updateTechnician                *)
(***************************************************************************)
updateTaskStatus_findTask(p, taskId, technicianId, status) ==
    /\ Accept(p)
    /\ IF taskId \in DOMAIN tasks /\ tasks[taskId].technicianId = technicianId
       THEN /\ call' = [call EXCEPT ![p] =
                          [NoCall EXCEPT !.op = "taskStatus", !.taskId = taskId,
                                         !.tid = technicianId, !.status = status,
                                         !.cid = tasks[taskId].complaintId,
                                         !.existing = TaskRow(taskId)]]
            /\ Goto(p, "t_transaction")
       ELSE /\ call' = [call EXCEPT ![p] =
                          [NoCall EXCEPT !.op = "taskStatus", !.taskId = taskId,
                                         !.tid = technicianId]]
            /\ Finish(p, "NotFound")
    /\ UNCHANGED dbvars

\* prisma.$transaction: task.update, then complaint.update, or neither.
updateTaskStatus_transaction(p) ==
    /\ UNCHANGED calls
    /\ pc[p] = "t_transaction"
    /\ LET complaintId == call[p].existing.complaintId IN
       IF call[p].taskId \in DOMAIN tasks /\ complaintId \in DOMAIN complaints
       THEN /\ complaints' = [complaints EXCEPT ![complaintId] =
                                StatusData(@, call[p].status)]
            /\ Finish(p, "ok")
       ELSE /\ UNCHANGED complaints
            /\ Finish(p, "PrismaError")
    /\ UNCHANGED <<users, technicians, nextComplaintId, tasks, nextTaskId, call>>

updateTechnician(id, status) ==
    /\ calls < MaxCalls
    /\ calls' = calls + 1
    /\ id \in DOMAIN technicians
    /\ technicians[id] # status
    /\ technicians' = [technicians EXCEPT ![id] = status]
    /\ UNCHANGED <<users, complaints, nextComplaintId, tasks, nextTaskId, procvars>>
    /\ UNCHANGED <<gatewayvars, notifyvars, authvars, listing, accountvars>>

(***************************************************************************)
(* The environment: a round trip to the database is rejected (connection   *)
(* lost, timeout) and the handler throws; the response is sent.            *)
(***************************************************************************)
DbFailure(p) ==
    /\ UNCHANGED calls
    /\ pc[p] \notin {"idle", "done"}
    /\ Finish(p, "DbError")
    /\ UNCHANGED <<dbvars, call>>

\* The steps of slot p when the status route is called by one of callers.
StepWith(p, callers, notes) ==
    \/ \E u \in UserIds, dto \in CreateDtos : create(p, u, dto)
    \/ \E c \in callers, id \in ComplaintIds, s \in ComplaintStatus,
          n \in notes :
          updateComplaintStatus_find(p, c, id, s, n)
    \/ updateComplaintStatus_update(p)
    \/ \E id \in ComplaintIds, t \in TechIds :
          assignTechnician_findComplaint(p, id, t)
    \/ assignTechnician_findTechnician(p)
    \/ assignTechnician_updateComplaint(p)
    \/ assignTechnician_findFirstTask(p)
    \/ assignTechnician_writeTask(p)
    \/ \E id \in ComplaintIds : deleteComplaint_find(p, id)
    \/ deleteComplaint_deleteTasks(p)
    \/ deleteComplaint_deleteComplaint(p)
    \/ \E t \in 1..MaxTasks, tech \in 1..MaxTechs, s \in ComplaintStatus :
          updateTaskStatus_findTask(p, t, tech, s)
    \/ updateTaskStatus_transaction(p)
    \/ DbFailure(p)

\* The status route called without adminNotes.
StepBy(p, callers) == StepWith(p, callers, {NoNotes})

\* The status route is called by admins.
Step(p) == StepBy(p, {0})

Next ==
    \/ \E p \in Procs : Step(p)
    \/ \E id \in 1..MaxTechs, s \in TechnicianStatus : updateTechnician(id, s)

Spec == Init /\ [][Next]_vars


(***************************************************************************)
(* The same handlers when requests are served one after the other: a       *)
(* handler runs to its end before the next request is accepted.            *)
(***************************************************************************)
Sequential(p) == \A q \in Procs \ {p} : Free(q)

NextSeq ==
    \/ \E p \in Procs : Sequential(p) /\ Step(p)
    \/ /\ \A q \in Procs : Free(q)
       /\ \E id \in 1..MaxTechs, s \in TechnicianStatus : updateTechnician(id, s)

SpecSeq == Init /\ [][NextSeq]_vars

(***************************************************************************)
(* The same handlers with admins and technicians calling the status route. *)
(***************************************************************************)
NextRoles ==
    \/ \E p \in Procs : StepBy(p, StatusCallers)
    \/ \E id \in 1..MaxTechs, s \in TechnicianStatus : updateTechnician(id, s)

SpecRoles == Init /\ [][NextRoles]_vars

(***************************************************************************)
(* TechniciansService.deleteTechnician                                     *)
(***************************************************************************)
\* Technician.userId: the technicians are the users seeded with the role
\* TECHNICIAN, in the order of their ids.
TechnicianUserId(t) == 2 * t
\* The Technician rows of Init with a User row each.
InitTech ==
    /\ users = [u \in 1..(2 * MaxTechs) |-> SeedRole(u)]
    /\ InitRest

\* task.count({ technicianId, complaint: { status in ASSIGNED, IN_PROGRESS } })
ActiveTasks(technicianId) ==
    {t \in DOMAIN tasks :
        /\ tasks[t].technicianId = technicianId
        /\ tasks[t].complaintId \in DOMAIN complaints
        /\ complaints[tasks[t].complaintId].status
              \in {"ASSIGNED", "IN_PROGRESS"}}

deleteTechnician_find(p, id) ==
    /\ Accept(p)
    /\ call' = [call EXCEPT ![p] =
                  [NoCall EXCEPT !.op = "deleteTechnician", !.tid = id]]
    /\ IF id \in DOMAIN technicians
       THEN Goto(p, "k_count")
       ELSE Finish(p, "NotFound")
    /\ UNCHANGED dbvars

\* The rows counted are those whose technicianId equals technician.userId.
deleteTechnician_countTasks(p) ==
    /\ UNCHANGED calls
    /\ pc[p] = "k_count"
    /\ IF Cardinality(ActiveTasks(TechnicianUserId(call[p].tid))) > 0
       THEN Finish(p, "BadRequest")
       ELSE Goto(p, "k_role")
    /\ UNCHANGED <<dbvars, call>>

deleteTechnician_updateUser(p) ==
    /\ UNCHANGED calls
    /\ pc[p] = "k_role"
    /\ LET userId == TechnicianUserId(call[p].tid) IN
       IF userId \in DOMAIN users
       THEN /\ users' = [users EXCEPT ![userId] = "RESIDENT"]
            /\ Goto(p, "k_delete")
       ELSE /\ UNCHANGED users
            /\ Finish(p, "PrismaError")
    /\ UNCHANGED <<technicians, complaints, nextComplaintId, tasks, nextTaskId,
                   call>>

\* technician.delete: the Tasks of the technician go with the row
\* (Task_technicianId_fkey ON DELETE CASCADE).
deleteTechnician_delete(p) ==
    /\ UNCHANGED calls
    /\ pc[p] = "k_delete"
    /\ LET id == call[p].tid IN
       IF id \in DOMAIN technicians
       THEN /\ technicians' = Remove(technicians, {id})
            /\ tasks' = Remove(tasks, {t \in DOMAIN tasks :
                                         tasks[t].technicianId = id})
            /\ Finish(p, "ok")
       ELSE /\ UNCHANGED <<technicians, tasks>>
            /\ Finish(p, "PrismaError")
    /\ UNCHANGED <<users, complaints, nextComplaintId, nextTaskId, call>>

NextTech ==
    \/ \E p \in Procs : Step(p)
    \/ \E p \in Procs, id \in TechIds : deleteTechnician_find(p, id)
    \/ \E p \in Procs : deleteTechnician_countTasks(p)
    \/ \E p \in Procs : deleteTechnician_updateUser(p)
    \/ \E p \in Procs : deleteTechnician_delete(p)

SpecTech == InitTech /\ [][NextTech]_vars

(***************************************************************************)
(* The same handlers with admins sending adminNotes to the status route.   *)
(***************************************************************************)
NextNotes ==
    \/ \E p \in Procs : StepWith(p, {0}, StatusNotes)
    \/ \E id \in 1..MaxTechs, s \in TechnicianStatus : updateTechnician(id, s)

SpecNotes == Init /\ [][NextNotes]_vars

(***************************************************************************)
(* Status updates racing on the complaints residents have created          *)
(***************************************************************************)
NextRace ==
    \/ \E p \in Procs, u \in UserIds, dto \in CreateDtos : create(p, u, dto)
    \/ \E p \in Procs, id \in ComplaintIds, s \in ComplaintStatus,
          n \in StatusNotes :
          updateComplaintStatus_find(p, 0, id, s, n)
    \/ \E p \in Procs : updateComplaintStatus_update(p)

SpecRace == Init /\ [][NextRace]_vars

(***************************************************************************)
(* NotificationsGateway: the registry of live connections                  *)
(***************************************************************************)
\* The header values a connection may carry: the configured key, another
\* key, no key.
ADMIN_API_KEY == "key"
ApiKeys == {ADMIN_API_KEY, "other", ""}

\* Map.prototype.has / get / set / delete on connectedUsers.  0 is undefined.
MapHas(m, k) == \E i \in 1..Len(m) : m[i].userId = k
MapGet(m, k) ==
    IF MapHas(m, k)
    THEN m[CHOOSE i \in 1..Len(m) : m[i].userId = k].socketId
    ELSE 0
\* Mutant: an existing entry is kept.
MapSet_keepFirst(m, k, v) ==
    IF MapHas(m, k) THEN m ELSE Append(m, [userId |-> k, socketId |-> v])

MapSet(m, k, v) ==
    IF MapHas(m, k)
    THEN [i \in 1..Len(m) |->
             IF m[i].userId = k THEN [userId |-> k, socketId |-> v] ELSE m[i]]
    ELSE Append(m, [userId |-> k, socketId |-> v])
MapDeleteAt(m, i) == SubSeq(m, 1, i - 1) \o SubSeq(m, i + 1, Len(m))

\* Mutant: the oldest entry is deleted, whichever socket it names.
removeUserBySocketId_oldest(m, socketId) ==
    IF Len(m) > 0 THEN MapDeleteAt(m, 1) ELSE m

\* removeUserBySocketId: the first entry of the socket is deleted, then break.
removeUserBySocketId(m, socketId) ==
    IF \E i \in 1..Len(m) : m[i].socketId = socketId
    THEN MapDeleteAt(m, CHOOSE i \in 1..Len(m) :
                          /\ m[i].socketId = socketId
                          /\ \A j \in 1..(i - 1) : m[j].socketId # socketId)
    ELSE m

\* An event of the gateway or a request of the notification routes arrives.
Event ==
    /\ calls < MaxCalls
    /\ calls' = calls + 1
    /\ UNCHANGED <<dbvars, procvars, authvars, listing, accountvars>>

\* userId is Number(query.userId): 0 stands for 0 and NaN, both falsy.
handleConnection(apiKey, userId) ==
    /\ Event
    /\ nextSocketId <= MaxSockets
    /\ nextSocketId' = nextSocketId + 1
    /\ IF apiKey # "" /\ apiKey = ADMIN_API_KEY
       THEN /\ adminSockets' = adminSockets \cup {nextSocketId}
            /\ sockets' = sockets \cup {nextSocketId}
            /\ handshake' = [handshake EXCEPT ![nextSocketId] = userId]
            /\ UNCHANGED connectedUsers
       ELSE IF userId # 0
       THEN /\ connectedUsers' = MapSet(connectedUsers, userId, nextSocketId)
            /\ sockets' = sockets \cup {nextSocketId}
            /\ handshake' = [handshake EXCEPT ![nextSocketId] = userId]
            /\ UNCHANGED adminSockets
       ELSE \* socket.disconnect()
            UNCHANGED <<sockets, connectedUsers, adminSockets, handshake>>
    /\ UNCHANGED notifyvars

handleDisconnect(socket) ==
    /\ Event
    /\ socket \in sockets
    /\ sockets' = sockets \ {socket}
    /\ connectedUsers' = removeUserBySocketId(connectedUsers, socket)
    /\ adminSockets' = adminSockets \ {socket}
    /\ UNCHANGED <<nextSocketId, handshake, notifyvars>>

handleRegisterUser(socket, userId) ==
    /\ Event
    /\ socket \in sockets
    /\ connectedUsers' = MapSet(connectedUsers, userId, socket)
    /\ UNCHANGED <<sockets, nextSocketId, adminSockets, handshake, notifyvars>>

(***************************************************************************)
(* notification.create with nested receipts                                *)
(***************************************************************************)
Range(f) == {f[i] : i \in DOMAIN f}

\* The target lists a send-notification message may carry.
TargetLists == UNION {[1..n -> UserIds] : n \in 0..MaxTargets}

\* The nested insert is accepted: every userId references a User row
\* (notification_receipts_userId_fkey) and no (notificationId, userId) pair
\* repeats (notification_receipts_notificationId_userId_key).
ReceiptsInsertable(ids) ==
    /\ \A i \in 1..Len(ids) : ids[i] \in DOMAIN users
    /\ \A i, j \in 1..Len(ids) : i # j => ids[i] # ids[j]

\* The rows of the nested create: status UNREAD (given, or the column
\* default), readAt null.
ReceiptRows(nid, ids) ==
    {[notificationId |-> nid, userId |-> ids[i], status |-> "UNREAD",
      readAt |-> NULL] : i \in 1..Len(ids)}

\* The insert as one statement: the Notification row with all its receipts,
\* or nothing.  The id of the sequence is consumed either way.
NotificationInsert(ids) ==
    /\ nextNotificationId' = nextNotificationId + 1
    /\ IF ReceiptsInsertable(ids)
       THEN /\ notifications' = notifications \cup {nextNotificationId}
            /\ receipts' = receipts \cup ReceiptRows(nextNotificationId, ids)
       ELSE UNCHANGED <<notifications, receipts>>

(***************************************************************************)
(* NotificationsGateway.handleSendNotification                             *)
(***************************************************************************)
\* Mutant: the sender is not looked up in adminSockets.
handleSendNotification_create_anySocket(socket, targetUserIds) ==
    /\ Event
    /\ socket \in sockets
    /\ send.state # "created"
    /\ nextNotificationId <= MaxNotifications
    /\ NotificationInsert(targetUserIds)
    /\ send' = [NoSend EXCEPT
                  !.state = IF ReceiptsInsertable(targetUserIds)
                            THEN "created" ELSE "error",
                  !.socket = socket,
                  !.targetUserIds = targetUserIds,
                  !.notificationId =
                      IF ReceiptsInsertable(targetUserIds)
                      THEN nextNotificationId ELSE 0]
    /\ UNCHANGED <<gatewayvars, created>>

\* The admin check and the notification.create the handler awaits.
handleSendNotification_create(socket, targetUserIds) ==
    /\ Event
    /\ socket \in sockets
    /\ send.state # "created"
    /\ IF socket \notin adminSockets
       THEN /\ send' = [NoSend EXCEPT !.state = "Unauthorized", !.socket = socket,
                                      !.targetUserIds = targetUserIds]
            /\ UNCHANGED <<nextNotificationId, notifications, receipts>>
       ELSE /\ nextNotificationId <= MaxNotifications
            /\ NotificationInsert(targetUserIds)
            /\ send' = [NoSend EXCEPT
                          !.state = IF ReceiptsInsertable(targetUserIds)
                                    THEN "created" ELSE "error",
                          !.socket = socket,
                          !.targetUserIds = targetUserIds,
                          !.notificationId =
                              IF ReceiptsInsertable(targetUserIds)
                              THEN nextNotificationId ELSE 0]
    /\ UNCHANGED <<gatewayvars, created>>

\* Mutant: every target is emitted to, registered or not.
EmittedTo_everyTarget(m, ids) == [i \in 1..Len(ids) |-> MapGet(m, ids[i])]

\* The sockets the forEach emits to, target by target.
RECURSIVE EmittedTo(_, _)
EmittedTo(m, ids) ==
    IF ids = << >> THEN << >>
    ELSE LET socketId == MapGet(m, Head(ids)) IN
         (IF socketId # 0 THEN <<socketId>> ELSE << >>) \o EmittedTo(m, Tail(ids))

\* NotificationsGateway.sendNotificationToUsers: the same loop as a method.
sendNotificationToUsers(m, recipientIds) ==
    [success |-> TRUE, sentCount |-> Len(EmittedTo(m, recipientIds))]

\* The continuation after the await: the emit loop and the reply.
handleSendNotification_emit ==
    /\ send.state = "created"
    /\ LET emitted == EmittedTo(connectedUsers, send.targetUserIds) IN
       send' = [send EXCEPT !.state = "sent", !.emitted = emitted,
                            !.sentCount = Len(emitted)]
    /\ UNCHANGED <<dbvars, procvars, calls, gatewayvars, authvars, listing,
                   accountvars,
                   nextNotificationId, notifications, receipts, created>>

(***************************************************************************)
(* NotificationsService.create and markAsRead                              *)
(***************************************************************************)
DigitChars == <<"0", "1", "2", "3", "4", "5", "6", "7", "8", "9">>
IsDigit(c) == \E i \in 1..Len(DigitChars) : DigitChars[i] = c
DigitValue(c) == (CHOOSE i \in 1..Len(DigitChars) : DigitChars[i] = c) - 1

RECURSIVE DigitsValue(_, _)
DigitsValue(s, acc) ==
    IF s = << >> \/ ~IsDigit(Head(s)) THEN acc
    ELSE DigitsValue(Tail(s), acc * 10 + DigitValue(Head(s)))

\* parseInt of an unsigned string: leading whitespace is skipped, the digits
\* up to the first other character are read; -1 stands for NaN.
parseInt(s) ==
    LET t == TrimStart(s) IN
    IF t = << >> \/ ~IsDigit(Head(t)) THEN -1 ELSE DigitsValue(t, 0)

\* The specificUsers arrays tried (strings are sequences of characters).
SpecificUserLists ==
    { << >>,
      << <<"1">> >>,
      << <<"1">>, <<"2">> >>,
      << <<"2">>, <<"2">> >>,
      << <<"2">>, <<" ", "2">> >>,
      << <<"2", "x">> >>,
      << <<"x">> >>,
      << <<"1", "2">> >> }

RECURSIVE SortedSeq(_)
SortedSeq(S) ==
    IF S = {} THEN << >>
    ELSE LET m == CHOOSE x \in S : \A y \in S : x <= y
         IN <<m>> \o SortedSeq(S \ {m})

\* user.findMany({ where: { role } }): the ids, here in id order.
UsersWithRole(roles) == SortedSeq({u \in DOMAIN users : users[u] \in roles})

recipientUserIds(targetUserType, specificUsers) ==
    IF targetUserType = "SPECIFIC"
    THEN [i \in 1..Len(specificUsers) |-> parseInt(specificUsers[i])]
    ELSE IF targetUserType = "RESIDENT" THEN UsersWithRole({"RESIDENT"})
    ELSE IF targetUserType = "TECHNICIAN" THEN UsersWithRole({"TECHNICIAN"})
    ELSE UsersWithRole({"RESIDENT", "TECHNICIAN"})

\* NotificationsService.create.  The user directory does not change, so the
\* findMany and the create are one step.  A NaN userId is refused by the
\* client before any statement is sent.
createNotification(targetUserType, specificUsers) ==
    /\ Event
    /\ nextNotificationId <= MaxNotifications
    /\ LET ids == recipientUserIds(targetUserType, specificUsers) IN
       IF \E i \in 1..Len(ids) : ids[i] = -1
       THEN /\ UNCHANGED <<nextNotificationId, notifications, receipts>>
            /\ created' = [NoCreate EXCEPT !.state = "error",
                                           !.recipientUserIds = ids]
       ELSE /\ NotificationInsert(ids)
            /\ created' = [state |-> IF ReceiptsInsertable(ids)
                                     THEN "ok" ELSE "error",
                           notificationId |-> IF ReceiptsInsertable(ids)
                                              THEN nextNotificationId ELSE 0,
                           recipientUserIds |-> ids]
    /\ UNCHANGED <<gatewayvars, send>>

\* Mutant: every receipt of the notification is marked.
markAsRead_everyRecipient(userId, notificationId) ==
    /\ Event
    /\ receipts' =
         {IF r.notificationId = notificationId
          THEN [r EXCEPT !.status = "READ", !.readAt = DATE] ELSE r
          : r \in receipts}
    /\ UNCHANGED <<gatewayvars, nextNotificationId, notifications, send, created>>

\* NotificationsService.markAsRead: update of the receipt of the pair; the
\* update of a missing row throws and changes nothing.
markAsRead(userId, notificationId) ==
    /\ Event
    /\ receipts' =
         {IF r.notificationId = notificationId /\ r.userId = userId
          THEN [r EXCEPT !.status = "READ", !.readAt = DATE] ELSE r
          : r \in receipts}
    /\ UNCHANGED <<gatewayvars, nextNotificationId, notifications, send, created>>

\* The earlier NotificationsService.markAsRead: findUnique of the pair,
\* NotFoundException when there is none, then update of readAt alone.
markAsRead_earlier(userId, notificationId) ==
    /\ Event
    /\ receipts' =
         {IF r.notificationId = notificationId /\ r.userId = userId
          THEN [r EXCEPT !.readAt = DATE] ELSE r
          : r \in receipts}
    /\ UNCHANGED <<gatewayvars, nextNotificationId, notifications, send, created>>

NextNotify ==
    \/ \E k \in ApiKeys, u \in {0} \cup UserIds : handleConnection(k, u)
    \/ \E s \in 1..MaxSockets : handleDisconnect(s)
    \/ \E s \in 1..MaxSockets, u \in UserIds : handleRegisterUser(s, u)
    \/ \E s \in 1..MaxSockets, ts \in TargetLists :
          handleSendNotification_create(s, ts)
    \/ handleSendNotification_emit
    \/ \E a \in Audience, su \in SpecificUserLists :
          createNotification(a, IF a = "SPECIFIC" THEN su ELSE << >>)
    \/ \E u \in UserIds, n \in 1..MaxNotifications : markAsRead(u, n)

SpecNotify == Init /\ [][NextNotify]_vars

\* The notification routes with both markAsRead implementations of the
\* repository deployed.
NextReceipts ==
    \/ \E a \in Audience, su \in SpecificUserLists :
          createNotification(a, IF a = "SPECIFIC" THEN su ELSE << >>)
    \/ \E s \in 1..MaxSockets, ts \in TargetLists :
          handleSendNotification_create(s, ts)
    \/ \E k \in ApiKeys, u \in {0} \cup UserIds : handleConnection(k, u)
    \/ \E u \in UserIds, n \in 1..MaxNotifications : markAsRead(u, n)
    \/ \E u \in UserIds, n \in 1..MaxNotifications : markAsRead_earlier(u, n)

SpecReceipts == Init /\ [][NextReceipts]_vars

(***************************************************************************)
(* AuthService.login                                                       *)
(***************************************************************************)
MAX_LOGIN_ATTEMPTS == 5
LOGIN_TIMEOUT_MINUTES == 15

\* The account the logins are about (user 1), and its stored email.
Account == 1
AccountEmail == <<"a", "@", "x">>

\* The email and password fields of the requests tried.
LoginEmails ==
    { << >>, AccountEmail, <<" ", "A", "@", "x", " ">>, <<"b", "@", "x">> }
LoginPasswords == {"", "right", "wrong"}

\* String.prototype.toLowerCase on the characters used.
LowerChar(c) == IF c = "A" THEN "a" ELSE IF c = "B" THEN "b" ELSE c
toLowerCase(s) == [i \in 1..Len(s) |-> LowerChar(s[i])]

\* user.findUnique({ where: { email } }): the id, or 0 for no row.
UserByEmail(email) == IF email = AccountEmail THEN Account ELSE 0

\* bcrypt.compare against the stored hash.
PasswordValid(password) == password = "right"

\* The time the handlers are about to spend between two requests.
TickSteps == {7, 8}

Tick(d) ==
    /\ login.pc \in {"idle", "done"}
    /\ now + d <= MaxTime
    /\ now' = now + d
    /\ UNCHANGED <<dbvars, procvars, calls, gatewayvars, notifyvars, listing,
                   accountvars,
                   loginAttempts, lastLoginAttempt, login, logins,
                   failedLogins, lastFailureAt>>

LoginFrame ==
    UNCHANGED <<dbvars, procvars, calls, gatewayvars, notifyvars, now, listing,
                accountvars>>

\* Validation, findUnique, and the lock check on the row read.
login_find(email, password) ==
    /\ login.pc \in {"idle", "done"}
    /\ logins < MaxLogins
    /\ logins' = logins + 1
    /\ LET user == UserByEmail(Trim(toLowerCase(email)))
           entry == [NoLogin EXCEPT !.userId = user, !.password = password]
       IN
       IF email = << >> \/ password = ""
       THEN login' = [NoLogin EXCEPT !.pc = "done", !.result = "BadRequest"]
       ELSE IF user = 0
       THEN login' = [entry EXCEPT !.pc = "l_failed"]
       ELSE IF /\ loginAttempts[user] >= MAX_LOGIN_ATTEMPTS
               /\ lastLoginAttempt[user] # NoTime
       THEN IF now - lastLoginAttempt[user] < LOGIN_TIMEOUT_MINUTES
            THEN login' = [entry EXCEPT
                             !.pc = "done", !.result = "Locked",
                             !.remaining = LOGIN_TIMEOUT_MINUTES
                                           - (now - lastLoginAttempt[user])]
            ELSE login' = [entry EXCEPT !.pc = "l_reset"]
       ELSE login' = [entry EXCEPT !.pc = "l_compare"]
    /\ UNCHANGED <<loginAttempts, lastLoginAttempt, failedLogins, lastFailureAt>>
    /\ LoginFrame

\* resetLoginAttempts once the window has passed.
login_resetAfterTimeout ==
    /\ login.pc = "l_reset"
    /\ loginAttempts' = [loginAttempts EXCEPT ![login.userId] = 0]
    /\ lastLoginAttempt' = [lastLoginAttempt EXCEPT ![login.userId] = NoTime]
    /\ login' = [login EXCEPT !.pc = "l_compare"]
    /\ UNCHANGED <<logins, failedLogins, lastFailureAt>>
    /\ LoginFrame

login_compare ==
    /\ login.pc = "l_compare"
    /\ login' = [login EXCEPT !.pc = IF PasswordValid(login.password)
                                     THEN "l_success" ELSE "l_failed"]
    /\ UNCHANGED <<loginAttempts, lastLoginAttempt, logins, failedLogins,
                   lastFailureAt>>
    /\ LoginFrame

\* handleFailedLogin, then UnauthorizedException('Invalid credentials').
login_failed ==
    /\ login.pc = "l_failed"
    /\ IF login.userId # 0
       THEN /\ loginAttempts' =
                 [loginAttempts EXCEPT ![login.userId] = @ + 1]
            /\ lastLoginAttempt' =
                 [lastLoginAttempt EXCEPT ![login.userId] = now]
            /\ failedLogins' = failedLogins + 1
            /\ lastFailureAt' = now
       ELSE UNCHANGED <<loginAttempts, lastLoginAttempt, failedLogins,
                        lastFailureAt>>
    /\ login' = [login EXCEPT !.pc = "done", !.result = "InvalidCredentials"]
    /\ UNCHANGED logins
    /\ LoginFrame

\* resetLoginAttempts, the lastLogin update, and the token.
login_success ==
    /\ login.pc = "l_success"
    /\ loginAttempts' = [loginAttempts EXCEPT ![login.userId] = 0]
    /\ lastLoginAttempt' = [lastLoginAttempt EXCEPT ![login.userId] = NoTime]
    /\ failedLogins' = 0
    /\ login' = [login EXCEPT !.pc = "done", !.result = "ok"]
    /\ UNCHANGED <<logins, lastFailureAt>>
    /\ LoginFrame

NextLogin ==
    \/ \E e \in LoginEmails, pw \in LoginPasswords : login_find(e, pw)
    \/ login_resetAfterTimeout
    \/ login_compare
    \/ login_failed
    \/ login_success
    \/ \E d \in TickSteps : Tick(d)

SpecLogin == Init /\ [][NextLogin]_vars

(***************************************************************************)
(* AuthService.forgotPassword and AuthService.resetPassword                *)
(***************************************************************************)
PASSWORD_MIN_LENGTH == 8
\* The hour of the rate limit and of the token's life, in minutes, and the
\* number of recorded requests from which a request is dropped.
RESET_WINDOW_MINUTES == 60
MAX_RESET_REQUESTS == 3

\* user.findUnique({ where: { email } }): the id, or 0 for no row.
AccountByEmail(email) ==
    IF \E u \in DOMAIN accounts : accounts[u].email = email
    THEN CHOOSE u \in DOMAIN accounts : accounts[u].email = email
    ELSE 0

\* The emails asked about: the account's, the same with capitals and blanks
\* around it, and one that no user has.
ForgotEmails == {AccountEmail, <<" ", "A", "@", "x", " ">>, <<"b", "@", "x">>}
\* The new passwords tried: too short, the current one, and another.
NewPasswords ==
    { <<"s", "h", "o", "r", "t">>, SeedPassword,
      <<"o", "t", "h", "e", "r", "1", "2", "3">> }

\* A handler that has ended: its outcome is kept, and of its locals the
\* user it found and the number of requests that made it drop the request.
Ended(op, res) == [NoAuth EXCEPT !.pc = "done", !.op = op, !.result = res]

AuthFree(p) == auth[p].pc \in {"idle", "done"}
\* A request arrives and takes the first free slot.
AuthAccept(p) == AuthFree(p) /\ \A q \in Procs : q < p => ~AuthFree(q)
AuthFrame ==
    UNCHANGED <<technicians, complaints, nextComplaintId, tasks, nextTaskId,
                procvars, calls, gatewayvars, notifyvars, listing,
                login, logins, failedLogins, lastFailureAt>>

\* Time passes.
LaterSteps == {35}
Later(d) ==
    /\ now + d <= MaxResetTime
    /\ now' = now + d
    /\ UNCHANGED <<users, loginAttempts, lastLoginAttempt, accountvars>>
    /\ AuthFrame

\* passwordResetAttempt.count for the email within the last hour.
RecentResetRequests(email) ==
    LET recent == {r \in BagToSet(resetAttempts) :
                      /\ r.email = email
                      /\ r.createdAt >= now - RESET_WINDOW_MINUTES}
    IN  BagCardinality([r \in recent |-> resetAttempts[r]])

\* Requests that may still record an attempt.
ForgotsInFlight == {q \in Procs : auth[q].pc = "f_record"}

\* The rate limit: the request is dropped without a word, or goes on.
forgotPassword_count(p, email) ==
    /\ AuthAccept(p)
    /\ LET normalizedEmail == Trim(toLowerCase(email))
           entry == [NoAuth EXCEPT !.op = "forgotPassword",
                                   !.email = normalizedEmail]
       IN  IF RecentResetRequests(normalizedEmail) >= MAX_RESET_REQUESTS
           THEN auth' = [auth EXCEPT ![p] =
                           [Ended("forgotPassword", "undefined") EXCEPT
                              !.attempts =
                                  RecentResetRequests(normalizedEmail)]]
           ELSE /\ BagCardinality(resetAttempts) + Cardinality(ForgotsInFlight)
                     < MaxResetAttempts
                /\ auth' = [auth EXCEPT ![p] = [entry EXCEPT !.pc = "f_record"]]
    /\ UNCHANGED <<users, loginAttempts, lastLoginAttempt, now, accounts,
                   resetAttempts>>
    /\ AuthFrame

forgotPassword_record(p) ==
    /\ auth[p].pc = "f_record"
    /\ resetAttempts' = resetAttempts (+)
                           SetToBag({[email |-> auth[p].email,
                                      createdAt |-> now]})
    /\ auth' = [auth EXCEPT ![p].pc = "f_find"]
    /\ UNCHANGED <<users, loginAttempts, lastLoginAttempt, now, accounts>>
    /\ AuthFrame

\* Mutant: a request for an email without user is answered NotFound.
forgotPassword_find_reveal(p) ==
    /\ auth[p].pc = "f_find"
    /\ LET user == AccountByEmail(auth[p].email) IN
       IF user = 0
       THEN auth' = [auth EXCEPT ![p] = Ended("forgotPassword", "NotFound")]
       ELSE auth' = [auth EXCEPT ![p].pc = "f_update", ![p].userId = user,
                                 ![p].token = [sub |-> user, iat |-> now]]
    /\ UNCHANGED <<users, loginAttempts, lastLoginAttempt, now, accounts,
                   resetAttempts>>
    /\ AuthFrame

\* user.findUnique; for a user, the token is signed with the time of signing.
forgotPassword_find(p) ==
    /\ auth[p].pc = "f_find"
    /\ LET user == AccountByEmail(auth[p].email) IN
       IF user = 0
       THEN auth' = [auth EXCEPT ![p] = Ended("forgotPassword", "undefined")]
       ELSE auth' = [auth EXCEPT ![p].pc = "f_update", ![p].userId = user,
                                 ![p].token = [sub |-> user, iat |-> now]]
    /\ UNCHANGED <<users, loginAttempts, lastLoginAttempt, now, accounts,
                   resetAttempts>>
    /\ AuthFrame

\* user.update stores the token and its expiry; sendResetEmail logs or mails
\* the link and swallows a failure of the mailer; the handler returns nothing.
forgotPassword_update(p) ==
    /\ auth[p].pc = "f_update"
    /\ accounts' = [accounts EXCEPT
                      ![auth[p].userId].resetToken = auth[p].token,
                      ![auth[p].userId].resetTokenExpiry =
                          auth[p].token.iat + RESET_WINDOW_MINUTES]
    /\ auth' = [auth EXCEPT ![p] =
                  [Ended("forgotPassword", "undefined") EXCEPT
                     !.userId = auth[p].userId]]
    /\ UNCHANGED <<users, loginAttempts, lastLoginAttempt, now, resetAttempts>>
    /\ AuthFrame

\* The tokens a caller can present: one signed for the account at some time
\* up to now.
PresentableTokens ==
    {[sub |-> Account, iat |-> t] : t \in {0} \cup {now}
                                        \cup {x - RESET_WINDOW_MINUTES :
                                                x \in {accounts[Account].resetTokenExpiry}
                                                      \ {NoTime}}}

\* The length check, jwtService.verify, user.findFirst on (id, resetToken,
\* resetTokenExpiry > now) and bcrypt.compare with the row that was read.
resetPassword_find(p, token, newPassword) ==
    /\ AuthAccept(p)
    /\ LET entry == [NoAuth EXCEPT !.op = "resetPassword", !.token = token,
                                   !.password = newPassword]
           found == /\ token.sub \in DOMAIN accounts
                    /\ accounts[token.sub].resetToken = token
                    /\ accounts[token.sub].resetTokenExpiry > now
           thrown(e) == auth' = [auth EXCEPT ![p] = Ended("resetPassword", e)]
       IN  IF Len(newPassword) < PASSWORD_MIN_LENGTH THEN thrown("BadRequest")
           ELSE IF now >= token.iat + RESET_WINDOW_MINUTES
                THEN thrown("Unauthorized")
           ELSE IF ~found THEN thrown("Unauthorized")
           ELSE IF Compare(newPassword, accounts[token.sub].password)
                THEN thrown("BadRequest")
           ELSE auth' = [auth EXCEPT ![p] =
                           [entry EXCEPT !.pc = "r_update",
                                         !.userId = token.sub]]
    /\ UNCHANGED <<users, loginAttempts, lastLoginAttempt, now, accounts,
                   resetAttempts>>
    /\ AuthFrame

\* bcrypt.hash and user.update: the password, no token, no failed logins.
resetPassword_update(p) ==
    /\ auth[p].pc = "r_update"
    /\ LET id == auth[p].userId IN
       /\ accounts' = [accounts EXCEPT
                         ![id].password = Hash(auth[p].password),
                         ![id].resetToken = NoToken,
                         ![id].resetTokenExpiry = NoTime]
       /\ loginAttempts' = [loginAttempts EXCEPT ![id] = 0]
       /\ lastLoginAttempt' = [lastLoginAttempt EXCEPT ![id] = NoTime]
    /\ auth' = [auth EXCEPT ![p] = Ended("resetPassword", "ok")]
    /\ UNCHANGED <<users, now, resetAttempts>>
    /\ AuthFrame

NextReset ==
    \/ \E p \in Procs, e \in ForgotEmails : forgotPassword_count(p, e)
    \/ \E p \in Procs : forgotPassword_record(p)
    \/ \E p \in Procs : forgotPassword_find(p)
    \/ \E p \in Procs : forgotPassword_update(p)
    \/ \E p \in Procs, t \in PresentableTokens, pw \in NewPasswords :
          resetPassword_find(p, t, pw)
    \/ \E p \in Procs : resetPassword_update(p)
    \/ \E d \in LaterSteps : Later(d)

SpecReset == Init /\ [][NextReset]_vars

(***************************************************************************)
(* AuthService.signup                                                      *)
(***************************************************************************)
commonPasswords ==
    { <<"p", "a", "s", "s", "w", "o", "r", "d">>,
      <<"1", "2", "3", "4", "5", "6", "7", "8">>,
      <<"q", "w", "e", "r", "t", "y">> }

\* /^[^\s@]+@[^\s@]+\.[^\s@]+$/: no blank, one @ with text before it, and
\* after it a dot with text on both sides.
emailRegex(s) ==
    /\ \A i \in 1..Len(s) : s[i] \notin Whitespace
    /\ \E a \in 2..Len(s) :
          /\ s[a] = "@"
          /\ \A i \in 1..Len(s) : s[i] = "@" => i = a
          /\ \E d \in (a + 2)..(Len(s) - 1) : s[d] = "."

\* The bodies tried: two emails new to the database, one of them also in
\* capitals, and one without a dot; passwords of 7 and 8 characters and a common one.
SignupEmails ==
    { <<"n", "@", "x", ".", "y">>, <<"N", "@", "x", ".", "y">>,
      <<"m", "@", "x", ".", "y">>, <<"n", "@", "x">> }
SignupPasswords ==
    { <<"s", "e", "v", "e", "n", "7", "7">>,
      <<"p", "a", "s", "s", "w", "o", "r", "d">>,
      <<"e", "i", "g", "h", "t", "8", "8", "8">> }

\* Signups that may still create a User row.
SignupsInFlight == {q \in Procs : auth[q].pc = "s_create"}

\* The checks and user.findUnique on the normalised email.
signup_find(p, email, password, role) ==
    /\ AuthAccept(p)
    /\ LET normalizedEmail == Trim(toLowerCase(email))
           thrown(e) == auth' = [auth EXCEPT ![p] = Ended("signup", e)]
       IN  IF Len(password) < PASSWORD_MIN_LENGTH THEN thrown("BadRequest")
           ELSE IF toLowerCase(password) \in commonPasswords
                THEN thrown("BadRequest")
           ELSE IF ~emailRegex(email) THEN thrown("BadRequest")
           ELSE IF AccountByEmail(normalizedEmail) # 0
                THEN thrown("BadRequest")
           ELSE /\ Len(users) + Cardinality(SignupsInFlight)
                     < MaxUsers + MaxSignups
                /\ auth' = [auth EXCEPT ![p] =
                              [NoAuth EXCEPT !.pc = "s_create",
                                             !.op = "signup",
                                             !.email = normalizedEmail,
                                             !.password = password,
                                             !.role = role]]
    /\ UNCHANGED <<users, loginAttempts, lastLoginAttempt, now, accounts,
                   resetAttempts>>
    /\ AuthFrame

NewUser(p) ==
    [email |-> auth[p].email, password |-> Hash(auth[p].password),
     resetToken |-> NoToken, resetTokenExpiry |-> NoTime]

\* Mutant: user.create without the unique index on email.
signup_create_noUniqueIndex(p) ==
    /\ auth[p].pc = "s_create"
    /\ LET id == Len(users) + 1 IN
       /\ users' = Append(users, auth[p].role)
       /\ accounts' = Append(accounts, NewUser(p))
       /\ loginAttempts' = Append(loginAttempts, 0)
       /\ lastLoginAttempt' = Append(lastLoginAttempt, NoTime)
       /\ auth' = [auth EXCEPT ![p] =
                     [Ended("signup", "ok") EXCEPT !.userId = id]]
    /\ UNCHANGED <<now, resetAttempts>>
    /\ AuthFrame

\* bcrypt.hash and user.create; User_email_key refuses a second row with the
\* email, which the handler turns into InternalServerErrorException.
signup_create(p) ==
    /\ auth[p].pc = "s_create"
    /\ IF AccountByEmail(auth[p].email) # 0
       THEN /\ auth' = [auth EXCEPT ![p] =
                          Ended("signup", "InternalServerError")]
            /\ UNCHANGED <<users, accounts, loginAttempts, lastLoginAttempt>>
       ELSE LET id == Len(users) + 1 IN
            /\ users' = Append(users, auth[p].role)
            /\ accounts' = Append(accounts, NewUser(p))
            /\ loginAttempts' = Append(loginAttempts, 0)
            /\ lastLoginAttempt' = Append(lastLoginAttempt, NoTime)
            /\ auth' = [auth EXCEPT ![p] =
                          [Ended("signup", "ok") EXCEPT !.userId = id]]
    /\ UNCHANGED <<now, resetAttempts>>
    /\ AuthFrame

NextSignup ==
    \/ \E p \in Procs, e \in SignupEmails, pw \in SignupPasswords, r \in Role :
          signup_find(p, e, pw, r)
    \/ \E p \in Procs : signup_create(p)

SpecSignup == Init /\ [][NextSignup]_vars

(***************************************************************************)
(* AuthService.login served for several requests at once                   *)
(***************************************************************************)
\* The passwords tried: the account's and another.
WrongPassword == <<"w", "r", "o", "n", "g", "1", "2", "3">>
ConcurrentPasswords == {SeedPassword, WrongPassword}
ConcurrentEmails == {AccountEmail, <<"b", "@", "x">>}

ConcurrentFrame ==
    UNCHANGED <<dbvars, procvars, calls, gatewayvars, notifyvars, listing,
                login, lastFailureAt, now, accounts, resetAttempts>>

\* Validation, findUnique, and the lock check on the row read.
login_findUnique(p, email, password) ==
    /\ AuthAccept(p)
    /\ logins < MaxLogins
    /\ logins' = logins + 1
    /\ LET user == AccountByEmail(Trim(toLowerCase(email)))
           entry == [NoAuth EXCEPT !.op = "login", !.email = email,
                                   !.password = password, !.userId = user]
       IN
       IF email = << >> \/ password = << >>
       THEN auth' = [auth EXCEPT ![p] = Ended("login", "BadRequest")]
       ELSE IF user = 0
       THEN auth' = [auth EXCEPT ![p] = [entry EXCEPT !.pc = "c_failed"]]
       ELSE IF /\ loginAttempts[user] >= MAX_LOGIN_ATTEMPTS
               /\ lastLoginAttempt[user] # NoTime
       THEN IF now - lastLoginAttempt[user] < LOGIN_TIMEOUT_MINUTES
            THEN auth' = [auth EXCEPT ![p] = Ended("login", "Locked")]
            ELSE auth' = [auth EXCEPT ![p] = [entry EXCEPT !.pc = "c_reset"]]
       ELSE auth' = [auth EXCEPT ![p] = [entry EXCEPT !.pc = "c_compare"]]
    /\ UNCHANGED <<users, loginAttempts, lastLoginAttempt, failedLogins>>
    /\ ConcurrentFrame

\* resetLoginAttempts once the window has passed.
login_resetLoginAttempts(p) ==
    /\ auth[p].pc = "c_reset"
    /\ loginAttempts' = [loginAttempts EXCEPT ![auth[p].userId] = 0]
    /\ lastLoginAttempt' = [lastLoginAttempt EXCEPT ![auth[p].userId] = NoTime]
    /\ failedLogins' = 0
    /\ auth' = [auth EXCEPT ![p].pc = "c_compare"]
    /\ UNCHANGED <<users, logins>>
    /\ ConcurrentFrame

\* bcrypt.compare against the password of the row read; failedLogins counts
\* the comparisons that failed since the counter was last reset.
login_bcryptCompare(p) ==
    /\ auth[p].pc = "c_compare"
    /\ IF Compare(auth[p].password, accounts[auth[p].userId].password)
       THEN /\ auth' = [auth EXCEPT ![p].pc = "c_success"]
            /\ UNCHANGED failedLogins
       ELSE /\ auth' = [auth EXCEPT ![p].pc = "c_failed"]
            /\ failedLogins' = failedLogins + 1
    /\ UNCHANGED <<users, loginAttempts, lastLoginAttempt, logins>>
    /\ ConcurrentFrame

\* handleFailedLogin: findUnique by the email; without a row the handler
\* goes on to throw UnauthorizedException('Invalid credentials').
handleFailedLogin_findUnique(p) ==
    /\ auth[p].pc = "c_failed"
    /\ LET user == AccountByEmail(Trim(toLowerCase(auth[p].email))) IN
       IF user = 0
       THEN auth' = [auth EXCEPT ![p] = Ended("login", "InvalidCredentials")]
       ELSE auth' = [auth EXCEPT ![p].pc = "c_count",
                                 ![p].userId = user,
                                 ![p].attempts = loginAttempts[user]]
    /\ UNCHANGED <<users, loginAttempts, lastLoginAttempt, logins, failedLogins>>
    /\ ConcurrentFrame

\* handleFailedLogin: the update writes the count read plus one.
handleFailedLogin_update(p) ==
    /\ auth[p].pc = "c_count"
    /\ loginAttempts' =
          [loginAttempts EXCEPT ![auth[p].userId] = auth[p].attempts + 1]
    /\ lastLoginAttempt' = [lastLoginAttempt EXCEPT ![auth[p].userId] = now]
    /\ auth' = [auth EXCEPT ![p] = Ended("login", "InvalidCredentials")]
    /\ UNCHANGED <<users, logins, failedLogins>>
    /\ ConcurrentFrame

\* resetLoginAttempts, the lastLogin update, and the token.
login_generateToken(p) ==
    /\ auth[p].pc = "c_success"
    /\ loginAttempts' = [loginAttempts EXCEPT ![auth[p].userId] = 0]
    /\ lastLoginAttempt' = [lastLoginAttempt EXCEPT ![auth[p].userId] = NoTime]
    /\ failedLogins' = 0
    /\ auth' = [auth EXCEPT ![p] = Ended("login", "ok")]
    /\ UNCHANGED <<users, logins>>
    /\ ConcurrentFrame

NextLogins ==
    \/ \E p \in Procs, e \in ConcurrentEmails, pw \in ConcurrentPasswords :
          login_findUnique(p, e, pw)
    \/ \E p \in Procs : login_resetLoginAttempts(p)
    \/ \E p \in Procs : login_bcryptCompare(p)
    \/ \E p \in Procs : handleFailedLogin_findUnique(p)
    \/ \E p \in Procs : handleFailedLogin_update(p)
    \/ \E p \in Procs : login_generateToken(p)
    \/ \E d \in TickSteps : Tick(d)

SpecLogins == Init /\ [][NextLogins]_vars

(***************************************************************************)
(* Paginated list routes                                                   *)
(***************************************************************************)

\* A query parameter is a string (a sequence of characters) or is absent.
Absent == <<"undefined">>

RECURSIVE Decimal(_)
Decimal(k) ==
    IF k < 10 THEN <<DigitChars[k + 1]>>
    ELSE Decimal(k \div 10) \o <<DigitChars[(k % 10) + 1]>>

\* The page and limit parameters tried: none, the empty string, text that is
\* not a number, a number followed by text, numbers below 1, and numbers in
\* range; for limit also the number just above the cap.
PageTexts ==
    {Absent, << >>, <<"x">>, <<"2", "x">>, <<"-", "1">>, <<"0">>}
        \cup {Decimal(k) : k \in 1..MaxPage}
LimitTexts ==
    {Absent, << >>, <<"x">>, <<"-", "1">>, <<"0">>, <<"1", "0", "1">>}
        \cup {Decimal(k) : k \in {1, 2, 3, 10, 100}}
\* The number of rows that match the query when the request is served.
RecordCounts == 0..MaxRecords

\* A JavaScript number: NaN, or an integer.
NaN == [nan |-> TRUE, n |-> 0]
Num(k) == [nan |-> FALSE, n |-> k]

AllDigits(s) == s # << >> /\ \A i \in 1..Len(s) : IsDigit(s[i])
Unsigned(s) == IF s # << >> /\ Head(s) \in {"-", "+"} THEN Tail(s) ELSE s
Signed(s, k) == IF s # << >> /\ Head(s) = "-" THEN 0 - k ELSE k

\* parseInt(s, 10) and parseInt(s): leading whitespace and one sign are
\* skipped, the digits up to the first other character are read, and there
\* must be one digit at least.
parseIntSigned(s) ==
    LET t == TrimStart(s)
        u == Unsigned(t)
    IN  IF u = << >> \/ ~IsDigit(Head(u)) THEN NaN
        ELSE Num(Signed(t, DigitsValue(u, 0)))

\* Number(s) of a string of digits, signs, blanks and letters: the blank
\* string is 0, a signed string of digits is its value, anything else NaN.
Number(s) ==
    LET t == Trim(s)
        u == Unsigned(t)
    IN  IF t = << >> THEN Num(0)
        ELSE IF AllDigits(u) THEN Num(Signed(t, DigitsValue(u, 0)))
        ELSE NaN

\* x || d for a number x: d when x is 0 or NaN.
OrElse(x, d) == IF x.nan \/ x.n = 0 THEN Num(d) ELSE x

\* Math.floor in the place of Math.ceil.
Ceil_floor(a, b) == a \div b
\* Math.ceil(a / b) for a >= 0 and b # 0.
Ceil(a, b) == IF b > 0 THEN (a + b - 1) \div b ELSE 0 - (a \div (0 - b))

\* The number of rows findMany({skip, take}) returns out of n: a negative
\* take reads from the other end of the list.
findMany(skip, take, n) ==
    LET rest == IF n > skip THEN n - skip ELSE 0
        k == IF take < 0 THEN 0 - take ELSE take
    IN  IF k < rest THEN k ELSE rest

Listing(route, pageText, limitText, n) ==
    [NoListing EXCEPT !.route = route, !.page = pageText,
                      !.limit = limitText, !.n = n]

\* The controller's BadRequestException: the service is not called.
BadRequest(l) == [l EXCEPT !.status = "BadRequest"]

\* The responses of a list method of a service called with (page, limit) on
\* n matching rows: skip = (page - 1) * limit, findMany and count, and
\* pagination {page, limit, total, pages: Math.ceil(total / limit)}.
\* A NaN argument reaches the database client as a value that is no integer:
\* the client refuses it or ignores it. A negative skip is refused.
Paginate(l, page, limit) ==
    IF page.nan \/ limit.nan
    THEN { [l EXCEPT !.status = "PrismaError", !.queried = TRUE],
           [l EXCEPT !.status = "ok", !.queried = TRUE, !.records = l.n,
                     !.total = l.n, !.finite = FALSE] }
    ELSE LET skip == (page.n - 1) * limit.n
             arg == [l EXCEPT !.pageNum = page.n, !.limitNum = limit.n,
                              !.queried = TRUE]
         IN  IF skip < 0 THEN { [arg EXCEPT !.status = "PrismaError"] }
             ELSE { [arg EXCEPT
                       !.status = "ok",
                       !.records = findMany(skip, limit.n, l.n),
                       !.total = l.n,
                       !.finite = (limit.n # 0),
                       !.pages = IF limit.n = 0 THEN 0
                                 ELSE Ceil(l.n, limit.n)] }

\* One list request is looked at at a time: it is served when the previous
\* response has been sent.
Respond(responses) ==
    /\ listing' \in responses
    /\ UNCHANGED <<dbvars, procvars, calls, gatewayvars, notifyvars, authvars,
                   accountvars>>

\* GET /complaints
getAllComplaints(page, limit, n) ==
    /\ listing = NoListing
    /\ LET l == Listing("getAllComplaints", page, limit, n)
           pageNum == IF page \in {Absent, << >>} THEN Num(1)
                      ELSE parseIntSigned(page)
           limitNum == IF limit \in {Absent, << >>} THEN Num(10)
                       ELSE parseIntSigned(limit)
       IN  IF pageNum.nan \/ limitNum.nan THEN Respond({BadRequest(l)})
           ELSE IF limitNum.n < 1 \/ limitNum.n > 100
                THEN Respond({BadRequest(l)})
           ELSE Respond(Paginate(l, pageNum, limitNum))

\* GET /complaints/my-complaints
getUserComplaints(page, limit, n) ==
    /\ listing = NoListing
    /\ LET l == Listing("getUserComplaints", page, limit, n)
           pageNum == OrElse(IF page = Absent THEN Num(1) ELSE Number(page), 1)
           limitNum == OrElse(IF limit = Absent THEN Num(10)
                              ELSE Number(limit), 10)
           finalPage == IF pageNum.n < 1 THEN 1 ELSE pageNum.n
           atLeastOne == IF limitNum.n < 1 THEN 1 ELSE limitNum.n
           finalLimit == IF atLeastOne > 100 THEN 100 ELSE atLeastOne
       IN  IF pageNum.nan \/ limitNum.nan THEN Respond({BadRequest(l)})
           ELSE Respond(Paginate(l, Num(finalPage), Num(finalLimit)))

\* GET /technicians
getAllTechnicians(page, limit, n) ==
    /\ listing = NoListing
    /\ LET l == Listing("getAllTechnicians", page, limit, n)
           pageNum == parseIntSigned(IF page = Absent THEN <<"1">> ELSE page)
           limitNum == parseIntSigned(IF limit = Absent THEN <<"1", "0">>
                                      ELSE limit)
       IN  Respond(Paginate(l, pageNum, limitNum))

\* The response has been sent.
listed ==
    /\ listing # NoListing
    /\ listing' = NoListing
    /\ UNCHANGED <<dbvars, procvars, calls, gatewayvars, notifyvars, authvars,
                   accountvars>>

NextPages ==
    \/ \E page \in PageTexts, limit \in LimitTexts, n \in RecordCounts :
          \/ getAllComplaints(page, limit, n)
          \/ getUserComplaints(page, limit, n)
          \/ getAllTechnicians(page, limit, n)
    \/ listed

SpecPages == Init /\ [][NextPages]_vars

(***************************************************************************)
(* Claims                                                                  *)
(***************************************************************************)

\* C1: in every reachable state a complaint's resolvedAt is set if and only
\* if its status is RESOLVED.
C1_ResolvedAtIffResolved ==
    \A c \in DOMAIN complaints :
        (complaints[c].resolvedAt # NULL) <=> (complaints[c].status = "RESOLVED")

\* C2: in every reachable state, concurrent assignTechnician calls included,
\* a complaint has at most one Task row.
C2_AtMostOneTaskPerComplaint ==
    \A c \in ComplaintIds : Cardinality(TasksOf(c)) <= 1

\* C3: when assignTechnician calls run one after the other, a call that
\* succeeds leaves exactly one Task row for its complaint, that row points to
\* the technician of the call, and when a Task existed the call updated that
\* row instead of creating another.
C3_SequentialReassignKeepsOneTask ==
    \A p \in Procs :
        (pc[p] = "done" /\ call[p].op = "assign" /\ result[p] = "ok") =>
            /\ Cardinality(TasksOf(call[p].cid)) = 1
            /\ \A t \in TasksOf(call[p].cid) :
                  /\ tasks[t].technicianId = call[p].tid
                  /\ call[p].existing # NoTask => t = call[p].existing.id

\* C3 witness: a call for technician B has succeeded on a complaint whose Task
\* pointed to another technician A; the one Task row now points to B.
C3_Witness ==
    \E p \in Procs :
        /\ pc[p] = "done" /\ call[p].op = "assign" /\ result[p] = "ok"
        /\ call[p].existing # NoTask
        /\ call[p].existing.technicianId # call[p].tid
        /\ TasksOf(call[p].cid) = {call[p].existing.id}
        /\ tasks[call[p].existing.id].technicianId = call[p].tid

\* C4: an assignTechnician call that fails after its complaint write does not
\* leave the complaint ASSIGNED with assignedAt stamped and no Task.
C4_AssignAllOrNothing ==
    [][\A p \in Procs :
         (/\ pc[p] \in {"a_findTask", "a_task"}
          /\ pc'[p] = "done"
          /\ result'[p] # "ok")
         => LET c == call[p].cid IN
            ~(/\ c \in DOMAIN complaints'
              /\ complaints'[c].status = "ASSIGNED"
              /\ complaints'[c].assignedAt # NULL
              /\ \A t \in DOMAIN tasks' : tasks'[t].complaintId # c)]_vars

\* C5: an assignTechnician call whose technician does not exist or is not
\* ACTIVE ends with an error at the technician check, and that step leaves
\* every complaint (status, assignedAt) and every Task unchanged.
C5_InactiveTechnicianRejected ==
    [][\A p \in Procs :
         (/\ pc[p] = "a_technician"
          /\ pc'[p] # "a_technician"
          /\ \/ call[p].tid \notin DOMAIN technicians
             \/ technicians[call[p].tid] # "ACTIVE")
         => /\ pc'[p] = "done"
            /\ result'[p] \in {"NotFound", "BadRequest", "DbError"}
            /\ complaints' = complaints
            /\ tasks' = tasks]_vars

\* C5 witness: a call naming a technician on leave was rejected; the
\* complaint is still SUBMITTED, unstamped and without Task.
C5_Witness ==
    \E p \in Procs :
        /\ pc[p] = "done" /\ call[p].op = "assign" /\ result[p] = "BadRequest"
        /\ technicians[call[p].tid] = "ON_LEAVE"
        /\ call[p].cid \in DOMAIN complaints
        /\ complaints[call[p].cid] = NewComplaint
        /\ TasksOf(call[p].cid) = {}

\* C6: no reachable state holds a Task whose complaint does not exist; a
\* complaint row is removed only by the second write of a deleteComplaint
\* call, after that call's deleteMany of the Tasks; and once deleteComplaint
\* has succeeded, getComplaintById of that id is NotFound.
C6_NoOrphanTask ==
    \A t \in DOMAIN tasks : tasks[t].complaintId \in DOMAIN complaints

C6_DeletedIsNotFound ==
    \A p \in Procs :
        (pc[p] = "done" /\ call[p].op = "delete" /\ result[p] = "ok") =>
            /\ getComplaintById(call[p].cid) = "NotFound"
            /\ TasksOf(call[p].cid) = {}

C6_TasksBeforeComplaint ==
    \A c \in DOMAIN complaints :
        c \notin DOMAIN complaints' =>
            \E p \in Procs :
                /\ pc[p] = "d_complaint" /\ call[p].cid = c
                /\ pc'[p] = "done" /\ result'[p] = "ok"

C6_DeleteLeavesNoOrphan ==
    /\ [](C6_NoOrphanTask /\ C6_DeletedIsNotFound)
    /\ [][C6_TasksBeforeComplaint]_vars

\* C6 witness: between the two writes of deleteComplaint a concurrent
\* assignTechnician has created a Task for the complaint being deleted.
C6_Witness ==
    \E p \in Procs :
        /\ pc[p] = "d_complaint"
        /\ TasksOf(call[p].cid) # {}

\* C7: once a complaint is RESOLVED or REJECTED no step changes its status.
C7_TerminalStatuses ==
    [][\A c \in DOMAIN complaints :
         (complaints[c].status \in {"RESOLVED", "REJECTED"}
          /\ c \in DOMAIN complaints')
         => complaints'[c].status = complaints[c].status]_vars

\* C8: in every reachable state a complaint that is ASSIGNED, IN_PROGRESS or
\* RESOLVED has a non-null assignedAt.
C8_AssignedAtOnceAssigned ==
    \A c \in DOMAIN complaints :
        complaints[c].status \in {"ASSIGNED", "IN_PROGRESS", "RESOLVED"}
            => complaints[c].assignedAt # NULL

\* A blank string: nothing but whitespace.
Blank(s) == \A i \in 1..Len(s) : s[i] \in Whitespace

\* C9: create persists a SUBMITTED complaint with resolvedAt unset for a valid
\* request; fails with a validation error and persists nothing when title or
\* description is blank or the category is outside the enum; fails with
\* NotFound and persists nothing when the resident is no existing user.
C9_CreateContract ==
    [][\A p \in Procs, u \in UserIds, dto \in CreateDtos :
         create(p, u, dto) =>
            IF u \notin DOMAIN users
            THEN result'[p] = "NotFound" /\ complaints' = complaints
            ELSE IF \/ Blank(dto.title)
                    \/ Blank(dto.description)
                    \/ dto.category \notin ComplaintCategory
            THEN result'[p] = "BadRequest" /\ complaints' = complaints
            ELSE /\ result'[p] = "ok"
                 /\ DOMAIN complaints' = DOMAIN complaints \cup {nextComplaintId}
                 /\ complaints'[nextComplaintId].status = "SUBMITTED"
                 /\ complaints'[nextComplaintId].resolvedAt = NULL]_vars


\* The receipts a step adds are exactly one UNREAD row of notification nid
\* per user of U.
ReceiptsAddedFor(nid, U) ==
    receipts' \ receipts =
        {[notificationId |-> nid, userId |-> u, status |-> "UNREAD",
          readAt |-> NULL] : u \in U}

\* C10: when a notification is sent to a list of target users, by the gateway
\* or by the service, the step creates exactly one Receipt per targeted user,
\* each UNREAD, whatever the registry holds.
C10_OneUnreadReceiptPerTarget ==
    [][/\ \A s \in sockets, ts \in TargetLists :
            (/\ handleSendNotification_create(s, ts)
             /\ s \in adminSockets
             /\ Range(ts) \subseteq DOMAIN users)
            => ReceiptsAddedFor(nextNotificationId, Range(ts))
       /\ \A a \in Audience, su \in SpecificUserLists :
            LET ids == recipientUserIds(a, su) IN
            (/\ createNotification(a, su)
             /\ Range(ids) \subseteq DOMAIN users)
            => ReceiptsAddedFor(nextNotificationId, Range(ids))]_vars

\* The entries of a target list that have an entry in the registry.
RegisteredEntries(ids) ==
    {i \in 1..Len(ids) : \E j \in 1..Len(connectedUsers) :
                             connectedUsers[j].userId = ids[i]}

\* C11: the emit step of a send reports success with a delivered count equal
\* to the number of targets that have a registry entry at that moment, skips
\* the others, and changes nothing but the reply (no queue, no retry);
\* sendNotificationToUsers reports the same count for every list.
C11_EmitCountsRegistered ==
    [][handleSendNotification_emit =>
          /\ send'.state = "sent"
          /\ send'.sentCount = Cardinality(RegisteredEntries(send.targetUserIds))
          /\ Len(send'.emitted) = send'.sentCount
          /\ UNCHANGED <<gatewayvars, nextNotificationId, notifications,
                         receipts, created>>]_vars

C11_MethodCountsRegistered ==
    \A ts \in TargetLists :
        /\ sendNotificationToUsers(connectedUsers, ts).success
        /\ sendNotificationToUsers(connectedUsers, ts).sentCount =
               Cardinality(RegisteredEntries(ts))

C11_DeliveredCount ==
    C11_EmitCountsRegistered /\ []C11_MethodCountsRegistered

\* C11 witness: a send to two targets of which one is registered has
\* reported success with a delivered count of 1.
C11_Witness ==
    /\ send.state = "sent"
    /\ Len(send.targetUserIds) = 2
    /\ send.sentCount = 1
    /\ Cardinality(RegisteredEntries(send.targetUserIds)) = 1

\* A registration of user u on socket s: a user connection, or register-user.
RegisterConnection(s, u) ==
    \/ handleRegisterUser(s, u)
    \/ /\ s = nextSocketId
       /\ \E k \in ApiKeys \ {ADMIN_API_KEY} : handleConnection(k, u)

\* C12: a registration of a user on a socket leaves the registry with exactly
\* one entry for that user, holding the socket of this registration, whatever
\* sockets registered the user before; a push to the user goes to that socket
\* and to no other.
C12_LastConnectionWins ==
    [][\A s \in 1..MaxSockets, u \in UserIds :
         RegisterConnection(s, u) =>
            /\ Cardinality({i \in 1..Len(connectedUsers') :
                              connectedUsers'[i].userId = u}) = 1
            /\ \A i \in 1..Len(connectedUsers') :
                  connectedUsers'[i].userId = u => connectedUsers'[i].socketId = s
            /\ EmittedTo(connectedUsers', <<u>>) = <<s>>]_vars

\* C12 witness: socket 1 connected as a user and is still open, and its
\* entry now holds socket 2, which registered the same user later.
C12_Witness ==
    /\ 1 \in sockets \ adminSockets
    /\ 2 \in sockets
    /\ \A i \in 1..Len(connectedUsers) : connectedUsers[i].socketId = 2
    /\ Len(connectedUsers) = 1

\* C13: after handleDisconnect of a socket no registry entry refers to it: it
\* is not in the admin set and is the value of no user entry.
C13_DisconnectEvictsSocket ==
    [][\A s \in 1..MaxSockets :
         handleDisconnect(s) =>
            /\ s \notin adminSockets'
            /\ \A i \in 1..Len(connectedUsers') :
                  connectedUsers'[i].socketId # s]_vars

\* C14: once five logins in a row have failed for the account, a login made
\* less than 15 minutes after the fifth failure ends at its lock check with
\* the locked response and a positive remaining time, whatever the password,
\* and leaves loginAttempts and lastLoginAttempt unchanged.
C14_FiveFailuresLock ==
    [][\A e \in LoginEmails, pw \in LoginPasswords \ {""} :
         (/\ login_find(e, pw)
          /\ UserByEmail(Trim(toLowerCase(e))) = Account
          /\ failedLogins >= MAX_LOGIN_ATTEMPTS
          /\ now - lastFailureAt < LOGIN_TIMEOUT_MINUTES)
         => /\ login'.pc = "done"
            /\ login'.result = "Locked"
            /\ login'.remaining > 0
            /\ loginAttempts' = loginAttempts
            /\ lastLoginAttempt' = lastLoginAttempt]_vars

\* The notification component has been handed something: a notification
\* record exists, or a send or create call of it has been made.
NotificationSignalled ==
    \/ notifications # {}
    \/ send.state # "none"
    \/ created.state # "none"

\* C15: once a create, assignTechnician or updateComplaintStatus call has
\* returned successfully, the notification component has been signalled.
C15_SuccessSignalsNotification ==
    \A p \in Procs :
        (/\ pc[p] = "done"
         /\ result[p] = "ok"
         /\ call[p].op \in {"create", "assign", "updateStatus"})
        => NotificationSignalled

\* A Task binds complaint c to technician t.
TaskBinds(c, t) ==
    \E k \in DOMAIN tasks : tasks[k].complaintId = c /\ tasks[k].technicianId = t

\* C16: a status update made by a technician changes a complaint only when
\* a Task binds that complaint to that technician, on the complaints route
\* and on the technician's task route.
C16_TechnicianUpdatesOwnOnly ==
    [][\A p \in Procs :
         (/\ \/ updateComplaintStatus_update(p) /\ call[p].by # 0
             \/ updateTaskStatus_transaction(p)
          /\ complaints' # complaints)
         => TaskBinds(call[p].cid,
                      IF call[p].op = "updateStatus" THEN call[p].by
                      ELSE call[p].tid)]_vars

\* C17: a step changes an existing receipt only when it is markAsRead(u, n)
\* and the receipt is the one of notification n and user u, which becomes
\* READ; every other receipt stays as it is, and the receipts a step adds
\* (creating a notification) are UNREAD.  Live delivery changes no receipt.
C17_OnlyOwnerMarksRead ==
    [][/\ \A u \in UserIds, n \in 1..MaxNotifications :
            markAsRead(u, n) =>
               /\ \A r \in receipts :
                     (r.userId # u \/ r.notificationId # n) => r \in receipts'
               /\ \A r \in receipts' \ receipts :
                     /\ r.userId = u /\ r.notificationId = n
                     /\ r.status = "READ"
       /\ (~ \E u \in UserIds, n \in 1..MaxNotifications : markAsRead(u, n)) =>
               /\ receipts \subseteq receipts'
               /\ \A r \in receipts' \ receipts : r.status = "UNREAD"
       /\ handleSendNotification_emit => receipts' = receipts]_vars

\* C17 witness: one recipient of a notification has marked it read, and the
\* receipt of another recipient of the same notification is still UNREAD.
C17_Witness ==
    \E r, q \in receipts :
        /\ r.notificationId = q.notificationId
        /\ r.userId # q.userId
        /\ r.status = "READ" /\ r.readAt = DATE
        /\ q.status = "UNREAD" /\ q.readAt = NULL

\* A parameter that is present and is not a whole number in decimal digits.
NonNumeric(text) ==
    text \notin {Absent, << >>} /\ ~AllDigits(Unsigned(text))
\* A parameter that is a whole number in decimal digits, and its value.
Numeric(text) == text \notin {Absent, << >>} /\ AllDigits(Unsigned(text))
ValueOf(text) == Signed(text, DigitsValue(Unsigned(text), 0))

\* C18: a list request whose page or limit is not numeric, whose limit is
\* below 1 or above 100, or whose page is below 1, is answered by a
\* validation error on every paginated route, and the query is not run.
C18_BadPagingRejected ==
    ( /\ listing.route # "none"
      /\ \/ NonNumeric(listing.page)
         \/ NonNumeric(listing.limit)
         \/ Numeric(listing.limit) /\ ValueOf(listing.limit) < 1
         \/ Numeric(listing.limit) /\ ValueOf(listing.limit) > 100
         \/ Numeric(listing.page) /\ ValueOf(listing.page) < 1 )
    => (listing.status = "BadRequest" /\ ~listing.queried)

\* The rows left from offset (p - 1) * limit on, out of n, at most limit.
RecordsOnPage(n, p, limit) ==
    LET rest == IF n > (p - 1) * limit THEN n - (p - 1) * limit ELSE 0
    IN  IF limit < rest THEN limit ELSE rest
\* The least number of pages of limit rows that hold n rows.
PagesFor(n, limit) == CHOOSE k \in 0..n : k * limit >= n /\ (k = 0 \/ (k - 1) * limit < n)

\* C19: a list query served with page p >= 1 and 1 <= limit <= 100 over n
\* matching rows answers min(limit, max(0, n - (p - 1) * limit)) records,
\* total = n and pages = ceil(n / limit).
C19_PageOfRecords ==
    ( /\ listing.status = "ok"
      /\ listing.pageNum >= 1
      /\ listing.limitNum \in 1..100 )
    => /\ listing.records = RecordsOnPage(listing.n, listing.pageNum,
                                          listing.limitNum)
       /\ listing.total = listing.n
       /\ listing.finite
       /\ listing.pages = PagesFor(listing.n, listing.limitNum)

\* 25 rows, page 1, limit 10: 10 records and 3 pages.
C19_Witness ==
    /\ listing.status = "ok"
    /\ listing.route = "getAllComplaints"
    /\ listing.n = 25 /\ listing.pageNum = 1 /\ listing.limitNum = 10
    /\ listing.records = 10 /\ listing.total = 25 /\ listing.pages = 3

\* part occurs in text.
Contains(text, part) ==
    \E i \in 0..(Len(text) - Len(part)) :
        SubSeq(text, i + 1, i + Len(part)) = part

\* C20: a status update that carries notes leaves the complaint's adminNotes
\* holding what it held before and the notes; a status update without notes
\* leaves adminNotes as it was.
C20_NotesAppended ==
    [][\A p \in Procs :
         (updateComplaintStatus_update(p) /\ result'[p] = "ok") =>
            LET id == call[p].cid
                before == complaints[id].adminNotes
                after == complaints'[id].adminNotes
            IN  IF call[p].adminNotes = NoNotes THEN after = before
                ELSE /\ Contains(after, before)
                     /\ Contains(after, call[p].adminNotes)]_vars

\* C21: deleting a technician who has a Task whose complaint is ASSIGNED or
\* IN_PROGRESS is refused when the Tasks are counted, and no step of the
\* deletion changes the Technician rows, the users' roles or the Tasks while
\* the technician has such a Task.
C21_ActiveTechnicianKept ==
    [][\A p \in Procs :
         LET active == ActiveTasks(call[p].tid) # {} IN
         /\ (deleteTechnician_countTasks(p) /\ active)
               => (pc'[p] = "done" /\ result'[p] \in {"BadRequest", "Conflict"})
         /\ ((deleteTechnician_updateUser(p) \/ deleteTechnician_delete(p))
                /\ active)
               => UNCHANGED <<technicians, users, tasks>>]_vars

\* C22: a password-reset request that has been answered returned nothing,
\* whether the email has a user, has none, or the request was dropped by the
\* rate limit: the caller sees the same result in the three cases.
C22_ForgotPasswordSilent ==
    \A p \in Procs :
        (auth[p].op = "forgotPassword" /\ auth[p].pc = "done")
            => auth[p].result = "undefined"

\* One answered request found the account, another found no user.
C22_Witness ==
    \E p, q \in Procs :
        /\ auth[p].op = "forgotPassword" /\ auth[p].pc = "done"
        /\ auth[p].userId = Account
        /\ auth[q].op = "forgotPassword" /\ auth[q].pc = "done"
        /\ auth[q].userId = 0 /\ auth[q].attempts = 0
        /\ [email |-> <<"b", "@", "x">>, createdAt |-> now]
              \in BagToSet(resetAttempts)

\* C29: a reset that succeeds is made with the token the user row holds when
\* the password is written (a token already used, or replaced by a newer
\* forgotPassword, resets nothing), and it sets loginAttempts to 0.
C29_TokenOnceAndLatest ==
    [][\A p \in Procs :
         resetPassword_update(p) =>
            /\ accounts[auth[p].userId].resetToken = auth[p].token
            /\ loginAttempts'[auth[p].userId] = 0]_vars

\* C23: a signup whose password has fewer than 8 characters, or whose email
\* in lower case and trimmed is the email of a user, ends with an error; a
\* signup that creates a User row has neither; and no two User rows have the
\* same email in lower case and trimmed.
C23_SignupStep ==
    [][\A p \in Procs :
         /\ \A e \in SignupEmails, pw \in SignupPasswords, r \in Role :
              ( /\ signup_find(p, e, pw, r)
                /\ \/ Len(pw) < PASSWORD_MIN_LENGTH
                   \/ \E u \in DOMAIN accounts :
                         accounts[u].email = Trim(toLowerCase(e)) )
                 => /\ auth'[p].pc = "done"
                    /\ auth'[p].result \notin {"ok", "none"}
         /\ (signup_create(p) /\ auth'[p].result = "ok")
              => /\ Len(auth[p].password) >= PASSWORD_MIN_LENGTH
                 /\ \A u \in DOMAIN accounts : accounts[u].email # auth[p].email
         /\ (signup_create(p) /\ auth'[p].result # "ok")
              => UNCHANGED <<users, accounts>>]_vars
C23_OneUserPerEmail ==
    \A u, v \in DOMAIN accounts :
        Trim(toLowerCase(accounts[u].email)) = Trim(toLowerCase(accounts[v].email))
            => u = v
C23_SignupRejectsShortOrTaken == C23_SignupStep /\ []C23_OneUserPerEmail

\* Two signups for one email ran together: one created the user, the other
\* was refused by the unique index.
C23_Witness ==
    \E p, q \in Procs :
        /\ auth[p].op = "signup" /\ auth[p].result = "ok"
        /\ auth[q].op = "signup" /\ auth[q].result = "InternalServerError"
        /\ Len(accounts) = MaxUsers + 1

\* C24: a send-notification message on a socket that is not in adminSockets
\* is refused, writes no Notification and no Receipt and emits nothing; the
\* emit loop runs only for a message that passed the admin check.
C24_SendRefused ==
    [][/\ \A s \in 1..MaxSockets, ts \in TargetLists :
            (handleSendNotification_create(s, ts) /\ s \notin adminSockets)
               => /\ send'.state = "Unauthorized"
                  /\ send'.emitted = << >> /\ send'.sentCount = 0
                  /\ UNCHANGED <<nextNotificationId, notifications, receipts>>
       /\ \A s \in 1..MaxSockets, ts \in TargetLists :
            (handleSendNotification_create(s, ts) /\ send'.state = "created")
               => s \in adminSockets
       /\ handleSendNotification_emit => send.state = "created"]_vars
C24_UnauthorizedSendsNothing ==
    send.state = "Unauthorized"
        => (send.emitted = << >> /\ send.notificationId = 0)
C24_OnlyAdminsSend == C24_SendRefused /\ []C24_UnauthorizedSendsNothing

\* A user's socket sent send-notification and was refused.
C24_Witness ==
    /\ send.state = "Unauthorized"
    /\ send.socket \in sockets \ adminSockets
    /\ \E i \in DOMAIN connectedUsers : connectedUsers[i].socketId = send.socket
    /\ notifications = {} /\ receipts = {}

\* C27: every entry of connectedUsers points to a connection whose handshake
\* carried that entry's user id, so a register-user message on another
\* connection cannot take over a user's pushes.
C27_EntryOfOwnIdentity ==
    \A i \in 1..Len(connectedUsers) :
        handshake[connectedUsers[i].socketId] = connectedUsers[i].userId

\* C28: a disconnect removes from connectedUsers only an entry whose socket
\* is the disconnecting one; the entry of a user who has since connected on
\* a newer socket still names the newer socket after the older one is gone.
C28_DisconnectStep ==
    [][\A s \in 1..MaxSockets :
          handleDisconnect(s) =>
             /\ \A i \in 1..Len(connectedUsers) :
                   connectedUsers[i].socketId # s
                      => MapGet(connectedUsers', connectedUsers[i].userId)
                            = connectedUsers[i].socketId
             /\ \A u \in UserIds :
                   MapHas(connectedUsers', u)
                      => MapGet(connectedUsers', u) = MapGet(connectedUsers, u)
             /\ s \notin sockets']_vars

\* User u connected on an older socket, then on a newer one, the older one
\* disconnected, and u's entry names the newer, open socket.
C28_Witness ==
    \E old \in 1..MaxSockets, new \in sockets, u \in UserIds :
        /\ old < new /\ old \notin sockets /\ old < nextSocketId
        /\ handshake[old] = u /\ handshake[new] = u
        /\ new \notin adminSockets
        /\ MapGet(connectedUsers, u) = new

\* C30: a receipt is READ exactly when its readAt is set, and a receipt that
\* is READ stays READ.
C30_ReadIffReadAt ==
    \A r \in receipts : (r.status = "READ") <=> (r.readAt # NULL)
C30_NeverUnread ==
    [][\A r \in receipts :
          r.status = "READ" =>
             \A q \in receipts' :
                (q.notificationId = r.notificationId /\ q.userId = r.userId)
                   => q.status = "READ"]_vars
C30_ReadStatusMatchesReadAt == C30_NeverUnread /\ []C30_ReadIffReadAt

\* The row a status update called alone leaves, given the row it finds.
UpdatedAlone(row, status, adminNotes) ==
    [status |-> status,
     assignedAt |-> row.assignedAt,
     resolvedAt |-> IF status = "RESOLVED" THEN DATE ELSE row.resolvedAt,
     adminNotes |-> IF Len(adminNotes) > 0 THEN adminNotes ELSE row.adminNotes]

\* C25: whatever a status update read and whatever was written since, its
\* write leaves the row a call run alone at that moment would leave, so the
\* state after two racing updates is the one of the two calls run in the
\* order of their writes; an update that found the complaint does not fail.
C25_WriteStep ==
    [][\A p \in Procs :
          (updateComplaintStatus_update(p) /\ call[p].cid \in DOMAIN complaints)
             => /\ complaints'[call[p].cid] =
                      UpdatedAlone(complaints[call[p].cid], call[p].status,
                                   call[p].adminNotes)
                /\ result'[p] = "ok"
                /\ \A c \in DOMAIN complaints \ {call[p].cid} :
                      complaints'[c] = complaints[c]]_vars
C25_NoUpdateFails ==
    \A p \in Procs :
        (call[p].op = "updateStatus" /\ call[p].status # "none")
           => result[p] \in {"none", "ok"}
C25_LastWriteWins == C25_WriteStep /\ []C25_NoUpdateFails

\* Two status updates of one complaint were in flight together (the second
\* slot is only taken while the first is busy), both have returned, and the
\* row shows the status of the one accepted first, with the notes each
\* left: the first one's write came last.
C25_Witness ==
    /\ \A p \in Procs : pc[p] = "done" /\ result[p] = "ok"
                        /\ call[p].op = "updateStatus"
    /\ call[1].cid = call[2].cid
    /\ call[1].status # call[2].status
    /\ call[2].status = "RESOLVED"
    /\ call[1].adminNotes = NoNotes /\ call[2].adminNotes # NoNotes
    /\ complaints[call[1].cid] =
          [NewComplaint EXCEPT !.status = call[1].status,
                               !.resolvedAt = DATE,
                               !.adminNotes = call[2].adminNotes]

\* C26: between two resets of the counter at most MAX_LOGIN_ATTEMPTS
\* comparisons with a wrong password are made for the account, whatever the
\* interleaving of the login requests, and the update that records a failed
\* comparison raises loginAttempts by exactly one.
C26_AttemptCounted ==
    [][\A p \in Procs :
          handleFailedLogin_update(p)
             => loginAttempts'[auth[p].userId]
                   = loginAttempts[auth[p].userId] + 1]_vars
C26_ComparisonsBounded == failedLogins <= MAX_LOGIN_ATTEMPTS
C26_LockoutBoundsGuessing == C26_AttemptCounted /\ []C26_ComparisonsBounded

=============================================================================
